---------------------------- MODULE Spec2Model ----------------------------
(***************************************************************************)
(* Model of semantic_version: the version ordering and requirement model   *)
(* (base.py), the edge accumulator and candidate discovery (edge.py) and   *)
(* the backtracking resolver State (edge.py).                              *)
(*                                                                         *)
(* Spec       the resolver: solve(pkgsVersionsDeps, root), one step of     *)
(*            attempt_pkg_traversal / attempt_pkgVersion_traversal per     *)
(*            action, the call stack explicit.                             *)
(* SpecEdges  the edge accumulator: Edges.append on requirements drawn     *)
(*            from a bounded set.                                          *)
(* SpecIngest the accumulators of PkgsEdges under a sequence of append,    *)
(*            extend_specs and update calls.                               *)
(* SpecDiscovery  candidate discovery: PkgsEdges.update, then              *)
(*            retrieve_edge_versions, then filter_update.                  *)
(* SpecVersions   Version: the comparisons of two versions and the bumps   *)
(*            of one, the versions drawn from a bounded set.               *)
(* SpecRanges VersionReq and Spec: match, filter, select, comparison and   *)
(*            hash, the requirements and versions drawn from bounded sets. *)
(* SpecText   Version.parse and Version.__str__ on strings: parse, print,  *)
(*            parse again.                                                 *)
(***************************************************************************)
EXTENDS Integers, Sequences, FiniteSets, TLC

VARIABLES
    scenario,          \* name of the input drawn in Init (read-only)
    pkgsVersionsDeps,  \* State.pkgsVersionsDeps: pkg -> keys (iteration order), deps
    root,              \* solve's root argument
    pkgsLocked,        \* State.pkgsLocked: pkg -> Version or None
    failedVersions,    \* State.failedVersions: pkg -> set of Version
    stack,             \* the Python call stack of the two traversal methods
    ret,               \* what the callee that just ended hands to its caller
    outcome,           \* how solve ended
    attempts,          \* history: versions locked by attempt_pkg_traversal's loop
    skipped,           \* history: <<pkg, version>> skipped because in the failure cache
    lastRaise,         \* history: the last attempt_pkgVersion_traversal that raised
    reqs_lt,           \* Edges.reqs_lt
    reqs_gte,          \* Edges.reqs_gte
    appended,          \* history: the requirements given to Edges.append so far
    appendError,       \* the error Edges.append ended with, or "none"
    allEdges,          \* a PkgsEdges: dep -> Edges
    calls,             \* history: the calls made on allEdges so far
    ingestError,       \* the error the last call on allEdges ended with, or "none"
    source,            \* candidate discovery: the requirement source and the catalogue
    phase,             \* candidate discovery: the step reached
    edgeVersions,      \* candidate discovery: the versions retrieved at the edges
    candidates,        \* candidate discovery: the PkgsVersionsDepsVersions built
    va,                \* a Version
    vb,                \* another Version
    compared,          \* the results of comparing va with vb, or NoResult
    bumped,            \* the results of bumping va, or NoResult
    rangeSet,          \* a Spec: the tuple of its VersionReq
    otherSet,          \* another Spec
    given,             \* the versions handed to match, filter and select
    answer,            \* the result of the call made on rangeSet, or NoResult
    text,              \* a version string
    partialMode,       \* the partial argument of Version.parse
    trip               \* the results of parsing text and printing it, or NoResult

vars == <<scenario, pkgsVersionsDeps, root, pkgsLocked, failedVersions, stack, ret,
          outcome, attempts, skipped, lastRaise, reqs_lt, reqs_gte, appended,
          appendError, allEdges, calls, ingestError, source, phase, edgeVersions,
          candidates, va, vb, compared, bumped, rangeSet, otherSet, given,
          answer, text, partialMode, trip>>

solverVars == <<scenario, pkgsVersionsDeps, root, pkgsLocked, failedVersions, stack,
                ret, outcome, attempts, skipped, lastRaise>>

edgeVars == <<reqs_lt, reqs_gte, appended, appendError>>

ingestVars == <<allEdges, calls, ingestError>>

discoveryVars == <<source, phase, edgeVersions, candidates>>

versionVars == <<va, vb, compared, bumped>>

rangeVars == <<rangeSet, otherSet, given, answer>>

textVars == <<text, partialMode, trip>>

\* what solve does not touch
nonSolverVars == <<edgeVars, ingestVars, discoveryVars, versionVars, rangeVars,
                   textVars>>

-----------------------------------------------------------------------------
(* Bounds of the model. *)

\* version numbers of the requirements given to Edges.append: 0..MaxNum
MaxNum == 1

\* number of Edges.append calls in one run of SpecEdges
MaxAppends == 1

\* versions 1.0.0 .. NVers.0.0 of every package of the generated inputs
NVers == 2

-----------------------------------------------------------------------------
(* base.py: identifiers, Version, ordering. *)

\* Python's NotImplemented, as returned by build_cmp; distinct from -1, 0, 1.
NotImplemented == 2

\* An identifier of a prerelease or build sequence. digits: the text is all
\* digits (int(value) succeeds); val: its integer value when digits, else the
\* rank of the text in lexicographic order among the texts used.
Identifier(digits, val) == [digits |-> digits, val |-> val]

base_cmp(a, b) == IF a < b THEN -1 ELSE IF a > b THEN 1 ELSE 0

identifier_cmp(a, b) ==
    IF a.digits /\ b.digits THEN base_cmp(a.val, b.val)
    ELSE IF a.digits THEN -1
    ELSE IF b.digits THEN 1
    ELSE base_cmp(a.val, b.val)

RECURSIVE identifier_list_cmp_from(_, _, _)
identifier_list_cmp_from(a, b, i) ==
    IF i > Len(a) \/ i > Len(b) THEN base_cmp(Len(a), Len(b))
    ELSE LET cmp_res == identifier_cmp(a[i], b[i])
         IN  IF cmp_res # 0 THEN cmp_res ELSE identifier_list_cmp_from(a, b, i + 1)

identifier_list_cmp(a, b) == identifier_list_cmp_from(a, b, 1)

\* Python's None in a minor or patch field (partial versions only).
NoneInt == -1

\* Python's None in a prerelease or build field (partial versions only); the
\* empty tuple () is <<>>.
NoneSeq == <<[digits |-> FALSE, val |-> NoneInt]>>

\* Python's None where a Version is expected (an unlocked package).
None == [none |-> TRUE]

\* Version.__init__
Version(major, minor, patch, prerelease, build, partial) ==
    [major |-> major, minor |-> minor, patch |-> patch,
     prerelease |-> prerelease, build |-> build, partial |-> partial]

\* Version(major, minor, patch): prerelease=(), build=(), partial=False
V(major, minor, patch) == Version(major, minor, patch, <<>>, <<>>, FALSE)

\* Version.parse(s, partial=True) of a string "major.minor.patch" without
\* prerelease and build part: both are None (base.py:219-222).
PartialV(major, minor, patch) == Version(major, minor, patch, NoneSeq, NoneSeq, TRUE)

\* Truth value of a prerelease or build field: None and () are false.
Truthy(ids) == ids # <<>> /\ ids # NoneSeq

prerelease_cmp(a, b) ==
    IF Truthy(a) /\ Truthy(b) THEN identifier_list_cmp(a, b)
    ELSE IF Truthy(a) THEN -1
    ELSE IF Truthy(b) THEN 1
    ELSE 0

\* A build_cmp that takes any two builds for equal.
build_cmp_ignored(a, b) == 0

build_cmp(a, b) == IF a = b THEN 0 ELSE NotImplemented

\* Version.__compare: the five fields in order, the first comparison that is
\* not 0 decides. When either version is partial every field but major is
\* compared by make_optional (None equals anything).
compare(self, other) ==
    LET partial == self.partial \/ other.partial
        c1 == base_cmp(self.major, other.major)
        c2 == IF partial /\ (self.minor = NoneInt \/ other.minor = NoneInt) THEN 0
              ELSE base_cmp(self.minor, other.minor)
        c3 == IF partial /\ (self.patch = NoneInt \/ other.patch = NoneInt) THEN 0
              ELSE base_cmp(self.patch, other.patch)
        c4 == IF partial /\ (self.prerelease = NoneSeq \/ other.prerelease = NoneSeq) THEN 0
              ELSE prerelease_cmp(self.prerelease, other.prerelease)
        c5 == IF partial /\ (self.build = NoneSeq \/ other.build = NoneSeq) THEN 0
              ELSE build_cmp(self.build, other.build)
    IN  IF c1 # 0 THEN c1
        ELSE IF c2 # 0 THEN c2
        ELSE IF c3 # 0 THEN c3
        ELSE IF c4 # 0 THEN c4
        ELSE c5

\* Version.__compare_helper: condition(cmp_res), or notimpl_target when the
\* comparison is NotImplemented. lt, eq, gt: the condition's value for a
\* negative, zero and positive cmp_res.
compare_helper(self, other, lt, eq, gt, notimpl_target) ==
    LET cmp_res == compare(self, other)
    IN  IF cmp_res = NotImplemented THEN notimpl_target
        ELSE IF cmp_res < 0 THEN lt
        ELSE IF cmp_res = 0 THEN eq
        ELSE gt

VersionEq(a, b) == compare_helper(a, b, FALSE, TRUE, FALSE, FALSE)
VersionNe(a, b) == compare_helper(a, b, TRUE, FALSE, TRUE, TRUE)
VersionLt_inclusive(a, b) == compare_helper(a, b, TRUE, TRUE, FALSE, FALSE)
VersionLt(a, b) == compare_helper(a, b, TRUE, FALSE, FALSE, FALSE)
VersionLe(a, b) == compare_helper(a, b, TRUE, TRUE, FALSE, FALSE)
VersionGt(a, b) == compare_helper(a, b, FALSE, FALSE, TRUE, FALSE)
VersionGe(a, b) == compare_helper(a, b, FALSE, TRUE, TRUE, FALSE)

\* The bump operations; minor and patch are known in every version the model
\* bumps.
next_major(v) ==
    IF Truthy(v.prerelease) /\ v.minor = 0 /\ v.patch = 0
    THEN V(v.major, v.minor, v.patch)
    ELSE V(v.major + 1, 0, 0)

\* A next_minor that never bumps.
next_minor_kept(v) == V(v.major, v.minor, v.patch)

next_minor(v) ==
    IF Truthy(v.prerelease) /\ v.patch = 0
    THEN V(v.major, v.minor, v.patch)
    ELSE V(v.major, v.minor + 1, 0)

\* A next_patch that bumps a prerelease version too.
next_patch_always(v) == V(v.major, v.minor, v.patch + 1)

next_patch(v) ==
    IF Truthy(v.prerelease)
    THEN V(v.major, v.minor, v.patch)
    ELSE V(v.major, v.minor, v.patch + 1)

\* next_minor raises TypeError when it adds 1 to a minor of None
\* (base.py:104), next_patch when it adds 1 to a patch of None (base.py:110);
\* next_major never does.
next_minor_raises(v) == ~(Truthy(v.prerelease) /\ v.patch = 0) /\ v.minor = NoneInt

next_patch_raises(v) == ~Truthy(v.prerelease) /\ v.patch = NoneInt

-----------------------------------------------------------------------------
(* base.py: VersionReq and Spec. *)

KIND_ANY == "*"
KIND_LT == "<"
KIND_LTE == "<="
KIND_EQUAL == "=="
KIND_SHORTEQ == "="
KIND_GTE == ">="
KIND_GT == ">"
KIND_NEQ == "!="
KIND_CARET == "^"
KIND_TILDE == "~"
KIND_COMPATIBLE == "~="

\* VersionReq.__init__
VersionReq(kind, version) == [kind |-> kind, version |-> version]

\* The version '' that VersionReq.parse gives the requirement '*'.
NoVersion == [str |-> ""]

\* VersionReq.match ends with the TypeError of the bump that computes upper.
match_raises(req) ==
    CASE req.kind = KIND_CARET ->
            IF req.version.major # 0 THEN FALSE
            ELSE IF req.version.minor # 0 THEN next_minor_raises(req.version)
            ELSE next_patch_raises(req.version)
      [] req.kind = KIND_TILDE -> next_minor_raises(req.version)
      [] req.kind = KIND_COMPATIBLE ->
            IF req.version.patch # NoneInt THEN next_minor_raises(req.version)
            ELSE FALSE
      [] OTHER -> FALSE

\* A match whose ranges include their upper bound.
match_closed(req, version) ==
    CASE req.kind = KIND_ANY -> TRUE
      [] req.kind = KIND_LT -> VersionLt(version, req.version)
      [] req.kind = KIND_LTE -> VersionLe(version, req.version)
      [] req.kind = KIND_EQUAL -> VersionEq(version, req.version)
      [] req.kind = KIND_GTE -> VersionGe(version, req.version)
      [] req.kind = KIND_GT -> VersionGt(version, req.version)
      [] req.kind = KIND_NEQ -> VersionNe(version, req.version)
      [] req.kind = KIND_CARET ->
            LET upper == IF req.version.major # 0 THEN next_major(req.version)
                         ELSE IF req.version.minor # 0 THEN next_minor(req.version)
                         ELSE next_patch(req.version)
            IN  VersionLe(req.version, version) /\ VersionLe(version, upper)
      [] req.kind = KIND_TILDE ->
            VersionLe(req.version, version) /\ VersionLe(version, next_minor(req.version))
      [] req.kind = KIND_COMPATIBLE ->
            LET upper == IF req.version.patch # NoneInt THEN next_minor(req.version)
                         ELSE next_major(req.version)
            IN  VersionLe(req.version, version) /\ VersionLe(version, upper)

\* VersionReq.match
match(req, version) ==
    CASE req.kind = KIND_ANY -> TRUE
      [] req.kind = KIND_LT -> VersionLt(version, req.version)
      [] req.kind = KIND_LTE -> VersionLe(version, req.version)
      [] req.kind = KIND_EQUAL -> VersionEq(version, req.version)
      [] req.kind = KIND_GTE -> VersionGe(version, req.version)
      [] req.kind = KIND_GT -> VersionGt(version, req.version)
      [] req.kind = KIND_NEQ -> VersionNe(version, req.version)
      [] req.kind = KIND_CARET ->
            LET upper == IF req.version.major # 0 THEN next_major(req.version)
                         ELSE IF req.version.minor # 0 THEN next_minor(req.version)
                         ELSE next_patch(req.version)
            IN  VersionLe(req.version, version) /\ VersionLt(version, upper)
      [] req.kind = KIND_TILDE ->
            VersionLe(req.version, version) /\ VersionLt(version, next_minor(req.version))
      [] req.kind = KIND_COMPATIBLE ->
            LET upper == IF req.version.patch # NoneInt THEN next_minor(req.version)
                         ELSE next_major(req.version)
            IN  VersionLe(req.version, version) /\ VersionLt(version, upper)

\* A Spec.match that is content with one matching requirement.
SpecMatch_any(spec, version) == \E i \in 1..Len(spec) : match(spec[i], version)

\* Spec.match: a Spec is the sequence of its requirements
SpecMatch(spec, version) == \A i \in 1..Len(spec) : match(spec[i], version)

\* Spec.filter: the matching versions, in the order given
SpecFilter(spec, versions) ==
    LET keep(version) == SpecMatch(spec, version)
    IN  SelectSeq(versions, keep)

\* Python's max(options) for a non-empty list: the first item is kept until a
\* later item compares greater (item > max).
RECURSIVE max_from(_, _, _)
max_from(options, i, best) ==
    IF i > Len(options) THEN best
    ELSE max_from(options, i + 1,
                  IF VersionGt(options[i], best) THEN options[i] ELSE best)

\* Spec.select
SpecSelect(spec, versions) ==
    LET options == SpecFilter(spec, versions)
    IN  IF options # <<>> THEN max_from(options, 2, options[1]) ELSE None

\* Version.__hash__: the hash of the tuple of the five fields, the partial
\* flag left out. Python's hash of a tuple is modelled without collisions,
\* as the tuple of the hashes of its items.
VersionHash(version) ==
    IF version = NoVersion THEN <<"">>
    ELSE <<version.major, version.minor, version.patch, version.prerelease,
           version.build>>

\* VersionReq.__hash__: hash((self.kind, self.version))
VersionReqHash(req) == <<req.kind, VersionHash(req.version)>>

\* VersionReq.__eq__
VersionReqEq(a, b) ==
    /\ a.kind = b.kind
    /\ IF a.version = NoVersion \/ b.version = NoVersion THEN a.version = b.version
       ELSE VersionEq(a.version, b.version)

\* Python's set(requirements) == set(requirements): the sets have as many
\* members and every member of one has a member of the other with the same
\* hash that is equal to it. A member is kept once for each hash-and-equal
\* class.
SetOfReqs(requirements) ==
    {VersionReqHash(requirements[i]) : i \in 1..Len(requirements)}

\* Spec.__eq__: set(self.requirements) == set(other.requirements)
SpecEq(self, other) ==
    /\ Cardinality(SetOfReqs(self)) = Cardinality(SetOfReqs(other))
    /\ \A i \in 1..Len(self) : \E j \in 1..Len(other) :
            /\ VersionReqHash(self[i]) = VersionReqHash(other[j])
            /\ VersionReqEq(self[i], other[j])

\* Spec.__hash__: hash(self.requirements), the hash of the tuple
SpecHash(spec) == [i \in 1..Len(spec) |-> VersionReqHash(spec[i])]

-----------------------------------------------------------------------------
(* edge.py: Edges, the edge accumulator. *)

\* Version.force_non_partial / VersionReq.force_non_partial (edge.py:34, 44, 94
\* call them). A version whose minor and patch are known becomes the same
\* version with partial = False, a prerelease or build of None becoming ();
\* a version whose minor or patch is unknown cannot be resolved and stays
\* partial, which Edges.append rejects (edge.py:98-101).
force_non_partial(version) ==
    IF version = NoVersion THEN version
    ELSE IF version.minor = NoneInt \/ version.patch = NoneInt THEN version
    ELSE Version(version.major, version.minor, version.patch,
                 IF version.prerelease = NoneSeq THEN <<>> ELSE version.prerelease,
                 IF version.build = NoneSeq THEN <<>> ELSE version.build,
                 FALSE)

\* EdgeLt.__init__ and EdgeGte.__init__: a VersionReq of kind < and >=
EdgeLt(version) == VersionReq(KIND_LT, force_non_partial(version))
EdgeGte(version) == VersionReq(KIND_GTE, force_non_partial(version))

\* Edges.__init__
NewEdges == [reqs_lt |-> {}, reqs_gte |-> {}, error |-> "none"]

\* edge.py:123-124, kind <=, with the patch bump left out
append_lte_unbumped(version) == [lt |-> {EdgeLt(version)}, gte |-> {}]

\* edge.py:123-124: a_lt(EdgeLt(version.next_patch()))
append_lte(version) == [lt |-> {EdgeLt(next_patch(version))}, gte |-> {}]

\* edge.py:129-137, kind ^
append_caret(version) ==
    LET upper == IF version.major # 0 THEN next_major(version)
                 ELSE IF version.minor # 0 THEN next_minor(version)
                 ELSE next_patch(version)
    IN  [lt |-> {EdgeLt(upper)}, gte |-> {EdgeGte(version)}]

\* edge.py:143-149, kind ~=
append_compatible(version) ==
    LET upper == IF version.patch # NoneInt THEN next_minor(version)
                 ELSE next_major(version)
    IN  [lt |-> {EdgeLt(upper)}, gte |-> {EdgeGte(version)}]

\* The edges Edges.append adds for one requirement (edge.py:103-152), as
\* [lt |-> the EdgeLt added, gte |-> the EdgeGte added].
EdgesOfReq(kind, version) ==
    CASE kind = KIND_LT -> [lt |-> {EdgeLt(version)}, gte |-> {}]
      [] kind = KIND_GTE -> [lt |-> {}, gte |-> {EdgeGte(version)}]
      [] kind = KIND_EQUAL \/ kind = KIND_SHORTEQ ->
            [lt |-> {}, gte |-> {EdgeGte(version)}]
      [] kind = KIND_NEQ ->
            [lt |-> {EdgeLt(version)}, gte |-> {EdgeGte(next_patch(version))}]
      [] kind = KIND_ANY -> [lt |-> {}, gte |-> {EdgeGte(V(0, 0, 1))}]
      [] kind = KIND_LTE -> append_lte(version)
      [] kind = KIND_GT -> [lt |-> {}, gte |-> {EdgeGte(next_patch(version))}]
      [] kind = KIND_CARET -> append_caret(version)
      [] kind = KIND_TILDE ->
            [lt |-> {EdgeLt(next_minor(version))}, gte |-> {EdgeGte(version)}]
      [] kind = KIND_COMPATIBLE -> append_compatible(version)

\* An append that forgets what the accumulator held.
append_replacing(edges, reqOrSpec) ==
    LET version == force_non_partial(reqOrSpec.version)
        added == EdgesOfReq(reqOrSpec.kind, version)
    IN  IF version # NoVersion /\ version.partial
        THEN [edges EXCEPT !.error = "TypeError"]
        ELSE [edges EXCEPT !.reqs_lt = added.lt, !.reqs_gte = added.gte]

\* An append without the test of edge.py:98-101.
append_unchecked(edges, reqOrSpec) ==
    LET added == EdgesOfReq(reqOrSpec.kind, force_non_partial(reqOrSpec.version))
    IN  [edges EXCEPT !.reqs_lt = @ \cup added.lt, !.reqs_gte = @ \cup added.gte]

\* An append that makes the test of edge.py:98-101 after adding the edges.
append_then_check(edges, reqOrSpec) ==
    LET version == force_non_partial(reqOrSpec.version)
        added == EdgesOfReq(reqOrSpec.kind, version)
    IN  [edges EXCEPT !.reqs_lt = @ \cup added.lt, !.reqs_gte = @ \cup added.gte,
                      !.error = IF version # NoVersion /\ version.partial
                                THEN "TypeError" ELSE @]

\* Edges.append of one VersionReq: the accumulator after the call. A version
\* that is still partial after force_non_partial raises TypeError and adds
\* nothing.
append(edges, reqOrSpec) ==
    LET version == force_non_partial(reqOrSpec.version)
        kind == reqOrSpec.kind
    IN  IF version # NoVersion /\ version.partial
        THEN [edges EXCEPT !.error = "TypeError"]
        ELSE LET added == EdgesOfReq(kind, version)
             IN  [edges EXCEPT !.reqs_lt = @ \cup added.lt,
                               !.reqs_gte = @ \cup added.gte]

\* Edges.append of a Spec: its requirements one after the other (edge.py:90-93)
RECURSIVE append_spec_from(_, _, _)
append_spec_from(edges, spec, i) ==
    IF i > Len(spec) \/ edges.error # "none" THEN edges
    ELSE append_spec_from(append(edges, spec[i]), spec, i + 1)

\* Edges.extend: every Spec of the list specs
RECURSIVE extend_from(_, _, _)
extend_from(edges, specs, i) ==
    IF i > Len(specs) \/ edges.error # "none" THEN edges
    ELSE extend_from(append_spec_from(edges, specs[i], 1), specs, i + 1)

extend(edges, specs) == extend_from(edges, specs, 1)

-----------------------------------------------------------------------------
(* edge.py: candidate discovery. A requirement source pkgsVersionsSpecs is   *)
(* [pkgs: the packages in dict order, versions: pkg -> its versions in      *)
(* ascending order (a SortedDict), deps: <<pkg, version>> -> the sequence   *)
(* of [dep, specs] in dict order].                                          *)

RECURSIVE EntriesOfPkg(_, _, _)
EntriesOfPkg(pvs, pkg, j) ==
    IF j > Len(pvs.versions[pkg]) THEN <<>>
    ELSE pvs.deps[<<pkg, pvs.versions[pkg][j]>>] \o EntriesOfPkg(pvs, pkg, j + 1)

\* Every (dep, specs) item in the order the three nested loops visit them.
RECURSIVE Entries(_, _)
Entries(pvs, i) ==
    IF i > Len(pvs.pkgs) THEN <<>>
    ELSE EntriesOfPkg(pvs, pvs.pkgs[i], 1) \o Entries(pvs, i + 1)

\* The error an operation on pkgsEdges has raised, or "none".
Raised(pkgsEdges) ==
    IF \E d \in DOMAIN pkgsEdges : pkgsEdges[d].error # "none"
    THEN (CHOOSE e \in {pkgsEdges[d].error : d \in DOMAIN pkgsEdges} : e # "none")
    ELSE "none"

\* extend_specs starting from a new Edges() whatever the package has already.
extend_specs_fresh(pkgsEdges, pkg, specs) ==
    [d \in DOMAIN pkgsEdges \cup {pkg} |->
        IF d = pkg THEN extend(NewEdges, specs) ELSE pkgsEdges[d]]

\* PkgsEdges.extend_specs: pkgsEdges is a function dep -> Edges
extend_specs(pkgsEdges, pkg, specs) ==
    LET old == IF pkg \in DOMAIN pkgsEdges THEN pkgsEdges[pkg] ELSE NewEdges
    IN  [d \in DOMAIN pkgsEdges \cup {pkg} |->
            IF d = pkg THEN extend(old, specs) ELSE pkgsEdges[d]]

RECURSIVE update_from(_, _, _)
update_from(pkgsEdges, entries, i) ==
    IF i > Len(entries) \/ Raised(pkgsEdges) # "none" THEN pkgsEdges
    ELSE update_from(extend_specs(pkgsEdges, entries[i].dep, entries[i].specs),
                     entries, i + 1)

\* PkgsEdges.update
update(pkgsEdges, pkgsVersionsSpecs) == update_from(pkgsEdges, Entries(pkgsVersionsSpecs, 1), 1)

\* PkgsEdges()
NewPkgsEdges == [d \in {} |-> NewEdges]

\* A scan that takes the lowest match instead of the highest.
lowest_match(e, pkgVersions, i) ==
    LET matches == {k \in 1..Len(pkgVersions) : match(e, pkgVersions[k])}
    IN  IF matches = {} THEN None
        ELSE pkgVersions[CHOOSE k \in matches : \A j \in matches : k <= j]

\* tests/test_edge.py _get_pkg_edge: an EdgeLt takes the first match from the
\* highest version down, an EdgeGte the first match from the lowest up.
RECURSIVE first_match_down(_, _, _)
first_match_down(e, pkgVersions, i) ==
    IF i < 1 THEN None
    ELSE IF match(e, pkgVersions[i]) THEN pkgVersions[i]
    ELSE first_match_down(e, pkgVersions, i - 1)

RECURSIVE first_match_up(_, _, _)
first_match_up(e, pkgVersions, i) ==
    IF i > Len(pkgVersions) THEN None
    ELSE IF match(e, pkgVersions[i]) THEN pkgVersions[i]
    ELSE first_match_up(e, pkgVersions, i + 1)

get_pkg_edge(db, pkg, e) ==
    IF pkg \notin DOMAIN db.versions THEN None
    ELSE IF e.kind = KIND_LT THEN first_match_down(e, db.versions[pkg], Len(db.versions[pkg]))
    ELSE first_match_up(e, db.versions[pkg], 1)

\* tests/test_edge.py get_pkg_edge_versions
get_pkg_edge_versions(db, pkg, edges) ==
    {get_pkg_edge(db, pkg, e) : e \in edges.reqs_lt \cup edges.reqs_gte} \ {None}

\* retrieve_edge_versions with get_pkg_edge_versions over db as retrieve_fn
retrieve_edge_versions(db, pkgEdges) ==
    [pkg \in DOMAIN pkgEdges |-> get_pkg_edge_versions(db, pkg, pkgEdges[pkg])]

\* version_matches_specs: specs is a list of Spec
version_matches_specs(specs, version) ==
    \A i \in 1..Len(specs) : SpecMatch(specs[i], version)

\* filter_by_specs
filter_by_specs(specs, versions) ==
    {version \in versions : version_matches_specs(specs, version)}

\* The items of depsSpecs that filter_update keeps: those with dep # root.
RECURSIVE filter_deps_from(_, _, _, _)
filter_deps_from(rootPkg, depsSpecs, pkgsVersions, i) ==
    IF i > Len(depsSpecs) THEN <<>>
    ELSE (IF depsSpecs[i].dep = rootPkg THEN <<>>
          ELSE <<[dep |-> depsSpecs[i].dep,
                  versions |-> filter_by_specs(depsSpecs[i].specs,
                                               pkgsVersions[depsSpecs[i].dep])]>>)
         \o filter_deps_from(rootPkg, depsSpecs, pkgsVersions, i + 1)

\* PkgsVersionsDepsVersions.filter_update on an empty map: pkg -> [keys: the
\* versions in insertion order, deps: version -> the sequence of
\* [dep, versions] in insertion order, versions a SortedSet].
filter_update(rootPkg, pkgsVersionsSpecs, pkgsVersions) ==
    [pkg \in {pkgsVersionsSpecs.pkgs[i] : i \in 1..Len(pkgsVersionsSpecs.pkgs)} |->
        [keys |-> pkgsVersionsSpecs.versions[pkg],
         deps |-> [version \in {pkgsVersionsSpecs.versions[pkg][j] :
                                  j \in 1..Len(pkgsVersionsSpecs.versions[pkg])} |->
                      filter_deps_from(rootPkg, pkgsVersionsSpecs.deps[<<pkg, version>>],
                                       pkgsVersions, 1)]]]

-----------------------------------------------------------------------------
(* The inputs of solve. *)

Range(seq) == {seq[i] : i \in 1..Len(seq)}

\* Spec.from_str of one or two requirement strings: the requirement versions
\* are parsed with partial=True (VersionReq.parse's default).
S1(kind, version) == <<VersionReq(kind, version)>>
S2(kind1, version1, kind2, version2) ==
    <<VersionReq(kind1, version1), VersionReq(kind2, version2)>>

\* tests/test_edge.py pkgsVersionsSpecsSimple, the versions of pkgE given.
pkgsVersionsSpecsSimple(versionsE) ==
    [pkgs |-> <<"pkgA", "pkgB", "pkgE">>,
     versions |-> [pkg \in {"pkgA", "pkgB", "pkgE"} |->
        CASE pkg = "pkgA" -> <<V(2, 3, 0)>>
          [] pkg = "pkgB" -> <<V(1, 0, 0), V(1, 1, 0), V(1, 2, 0)>>
          [] pkg = "pkgE" -> versionsE],
     deps |-> [pv \in ({"pkgA"} \X {V(2, 3, 0)})
                      \cup ({"pkgB"} \X {V(1, 0, 0), V(1, 1, 0), V(1, 2, 0)})
                      \cup ({"pkgE"} \X Range(versionsE)) |->
        CASE pv = <<"pkgA", V(2, 3, 0)>> ->
                <<[dep |-> "pkgB", specs |-> <<S1(KIND_CARET, PartialV(1, 0, 0))>>],
                  [dep |-> "pkgE",
                   specs |-> <<S2(KIND_GTE, PartialV(1, 0, 0), KIND_LT, PartialV(3, 0, 0))>>]>>
          [] pv = <<"pkgB", V(1, 0, 0)>> ->
                <<[dep |-> "pkgE",
                   specs |-> <<S2(KIND_GTE, PartialV(1, 2, 0), KIND_LT, PartialV(2, 0, 0))>>]>>
          [] pv = <<"pkgB", V(1, 1, 0)>> ->
                <<[dep |-> "pkgE",
                   specs |-> <<S2(KIND_GTE, PartialV(1, 0, 0), KIND_LT, PartialV(2, 0, 0))>>]>>
          [] pv = <<"pkgB", V(1, 2, 0)>> ->
                <<[dep |-> "pkgE",
                   specs |-> <<S2(KIND_GTE, PartialV(1, 5, 0), KIND_LT, PartialV(2, 5, 0))>>]>>
          [] OTHER -> <<>>]]

\* pkgE as the test builds it: V(mj, mn, 0) for mj in range(1, 4), mn in range(0, 10, 3)
VersionsE12 ==
    <<V(1, 0, 0), V(1, 3, 0), V(1, 6, 0), V(1, 9, 0), V(2, 0, 0), V(2, 3, 0),
      V(2, 6, 0), V(2, 9, 0), V(3, 0, 0), V(3, 3, 0), V(3, 6, 0), V(3, 9, 0)>>

\* pkgE as the end-to-end scenario lists it: the nine versions up to 3.0.0
VersionsE9 == SubSeq(VersionsE12, 1, 9)

\* The whole catalogue of a requirement source as the retrieved pool.
AllVersions(pvs) == [pkg \in DOMAIN pvs.versions |-> Range(pvs.versions[pkg])]

\* The inputs of the simple scenario: candidate discovery over the edges
\* (update, retrieve_edge_versions, filter_update), or over the whole
\* catalogue, with either list of pkgE versions.
SimpleInputs ==
    {filter_update("pkgA", pvs, retrieve_edge_versions(pvs, update(NewPkgsEdges, pvs))) :
        pvs \in {pkgsVersionsSpecsSimple(VersionsE12), pkgsVersionsSpecsSimple(VersionsE9)}}
    \cup
    {filter_update("pkgA", pvs, AllVersions(pvs)) :
        pvs \in {pkgsVersionsSpecsSimple(VersionsE12), pkgsVersionsSpecsSimple(VersionsE9)}}

\* Generated inputs: the root "r" and the packages "a" and "b" in versions
\* 1.0.0 .. NVers.0.0.
GenVersions == {V(n, 0, 0) : n \in 1..NVers}

RECURSIVE AscendingSeq(_)
AscendingSeq(n) == IF n = 0 THEN <<>> ELSE Append(AscendingSeq(n - 1), V(n, 0, 0))

\* The candidate sets a version v of a consumer may have for a dependency,
\* by the shape of its requirement.
Shapes == {"none", "any", "same", "atleast", "below", "above"}

ShapeVersions(shape, v) ==
    CASE shape = "any" -> GenVersions
      [] shape = "same" -> {v}
      [] shape = "atleast" -> {w \in GenVersions : w.major >= v.major}
      [] shape = "below" -> {w \in GenVersions : w.major < v.major}
      [] shape = "above" -> {w \in GenVersions : w.major > v.major}

DepOf(dep, shape, v) ==
    IF shape = "none" THEN <<>>
    ELSE <<[dep |-> dep, versions |-> ShapeVersions(shape, v)]>>

\* What the root requires of a package: nothing, or a range lo..hi of versions.
RootCandidates ==
    {[required |-> FALSE, versions |-> {}]}
    \cup {[required |-> TRUE, versions |-> {V(n, 0, 0) : n \in lo..hi}] :
            lo \in 1..NVers, hi \in 0..NVers}

RootDep(dep, cands) ==
    IF cands.required THEN <<[dep |-> dep, versions |-> cands.versions]>> ELSE <<>>

GenInput(nRoot, candsA, candsB, shapeAB, shapeBA) ==
    [pkg \in {"r", "a", "b"} |->
        [keys |-> IF pkg = "r" THEN AscendingSeq(nRoot) ELSE AscendingSeq(NVers),
         deps |-> [v \in (IF pkg = "r" THEN Range(AscendingSeq(nRoot)) ELSE GenVersions) |->
            CASE pkg = "r" -> RootDep("a", candsA) \o RootDep("b", candsB)
              [] pkg = "a" -> DepOf("b", shapeAB, v)
              [] pkg = "b" -> DepOf("a", shapeBA, v)]]]

GenInputs ==
    {GenInput(nRoot, candsA, candsB, shapeAB, shapeBA) :
        nRoot \in 0..NVers, candsA \in RootCandidates, candsB \in RootCandidates,
        shapeAB \in Shapes, shapeBA \in Shapes}

\* An input with a dependency that is locked but not accepted (edge.py:334)
\* after the frame has locked another one: r needs q = 1 and p; p 2.0.0 needs
\* z and q = 2; z 1.0.0 needs p = 2.
ConflictInput ==
    [pkg \in {"r", "p", "q", "z"} |->
        CASE pkg = "r" ->
                [keys |-> <<V(1, 0, 0)>>,
                 deps |-> [v \in {V(1, 0, 0)} |->
                    <<[dep |-> "q", versions |-> {V(1, 0, 0)}],
                      [dep |-> "p", versions |-> {V(1, 0, 0), V(2, 0, 0)}]>>]]
          [] pkg = "p" ->
                [keys |-> <<V(1, 0, 0), V(2, 0, 0)>>,
                 deps |-> [v \in {V(1, 0, 0), V(2, 0, 0)} |->
                    IF v = V(2, 0, 0)
                    THEN <<[dep |-> "z", versions |-> {V(1, 0, 0)}],
                           [dep |-> "q", versions |-> {V(2, 0, 0)}]>>
                    ELSE <<>>]]
          [] pkg = "q" ->
                [keys |-> <<V(1, 0, 0), V(2, 0, 0)>>,
                 deps |-> [v \in {V(1, 0, 0), V(2, 0, 0)} |-> <<>>]]
          [] pkg = "z" ->
                [keys |-> <<V(1, 0, 0)>>,
                 deps |-> [v \in {V(1, 0, 0)} |->
                    <<[dep |-> "p", versions |-> {V(2, 0, 0)}]>>]]]

\* An input with a dependency locked in a nested frame before the frame above
\* runs out of candidates: r needs p; p 2.0.0 needs w, x and y, and y has no
\* candidate; x 1.0.0 needs z; z 1.0.0 needs w; p 1.0.0 needs z.
NestedInput ==
    [pkg \in {"r", "p", "w", "x", "y", "z"} |->
        CASE pkg = "r" ->
                [keys |-> <<V(1, 0, 0)>>,
                 deps |-> [v \in {V(1, 0, 0)} |->
                    <<[dep |-> "p", versions |-> {V(1, 0, 0), V(2, 0, 0)}]>>]]
          [] pkg = "p" ->
                [keys |-> <<V(1, 0, 0), V(2, 0, 0)>>,
                 deps |-> [v \in {V(1, 0, 0), V(2, 0, 0)} |->
                    IF v = V(2, 0, 0)
                    THEN <<[dep |-> "w", versions |-> {V(1, 0, 0)}],
                           [dep |-> "x", versions |-> {V(1, 0, 0)}],
                           [dep |-> "y", versions |-> {}]>>
                    ELSE <<[dep |-> "z", versions |-> {V(1, 0, 0)}]>>]]
          [] pkg = "x" ->
                [keys |-> <<V(1, 0, 0)>>,
                 deps |-> [v \in {V(1, 0, 0)} |->
                    <<[dep |-> "z", versions |-> {V(1, 0, 0)}]>>]]
          [] pkg = "z" ->
                [keys |-> <<V(1, 0, 0)>>,
                 deps |-> [v \in {V(1, 0, 0)} |->
                    <<[dep |-> "w", versions |-> {V(1, 0, 0)}]>>]]
          [] OTHER ->
                [keys |-> <<V(1, 0, 0)>>, deps |-> [v \in {V(1, 0, 0)} |-> <<>>]]]

\* The inputs a run draws from: scenario name, pkgsVersionsDeps and root.
Inputs ==
    {[scenario |-> "simple", pkgsVersionsDeps |-> d, root |-> "pkgA"] : d \in SimpleInputs}
    \cup {[scenario |-> "generated", pkgsVersionsDeps |-> d, root |-> "r"] : d \in GenInputs}
    \cup {[scenario |-> "conflict", pkgsVersionsDeps |-> ConflictInput, root |-> "r"],
          [scenario |-> "nested", pkgsVersionsDeps |-> NestedInput, root |-> "r"]}

-----------------------------------------------------------------------------
(* edge.py: State, the backtracking resolver. *)

\* The least version of a SortedSet: the first one without reversed().
MinVersion(versions) ==
    CHOOSE v \in versions : \A u \in versions : ~VersionLt(u, v)

\* The greatest version of a SortedSet: the first one reversed() yields.
MaxVersion(versions) ==
    CHOOSE v \in versions : \A u \in versions : ~VersionLt(v, u)

\* self.pkgsLocked[pkg] = version
Lock(locked, pkg, version) == [locked EXCEPT ![pkg] = version]

\* The candidates of a loop that skips none.
NoneSkipped(versions, failed) == versions

\* The candidates the loop does not skip: if depVersion in failedVersions: continue
NotFailed(versions, failed) == versions \ failed

\* A rollback that unlocks every package, not only those of lockedHere.
RollbackAll(locked, lockedHere) == [pkg \in DOMAIN locked |-> None]

\* for dep in lockedHere: self.pkgsLocked[dep] = None
Rollback(locked, lockedHere) ==
    [pkg \in DOMAIN locked |-> IF pkg \in Range(lockedHere) THEN None ELSE locked[pkg]]

\* A handler that records the failure and leaves the package locked.
handle_not_solved_locked(locked, failed, pkg, pkgVersion) ==
    [pkgsLocked |-> locked,
     failedVersions |-> [failed EXCEPT ![pkg] = @ \cup {pkgVersion}]]

\* State._handle_not_solved(pkg, pkgVersion)
handle_not_solved(locked, failed, pkg, pkgVersion) ==
    [pkgsLocked |-> [locked EXCEPT ![pkg] = None],
     failedVersions |-> [failed EXCEPT ![pkg] = @ \cup {pkgVersion}]]

\* A frame of the call stack. entry is history: pkgsLocked when the call began.
Frame(fn, pkg, pkgVersion, entry) ==
    [fn |-> fn, pkg |-> pkg, pkgVersion |-> pkgVersion, pc |-> "start", i |-> 1,
     todo |-> {}, depVersion |-> None, lockedHere |-> <<>>, entry |-> entry]

Top == stack[Len(stack)]
Pop == SubSeq(stack, 1, Len(stack) - 1)
SetTop(frame) == [stack EXCEPT ![Len(stack)] = frame]

InPkg == stack # <<>> /\ Top.fn = "attempt_pkg_traversal"
InPkgVersion == stack # <<>> /\ Top.fn = "attempt_pkgVersion_traversal"

\* depsVersions.items() of the frame on top, and the item the loop is at
DepsVersions == pkgsVersionsDeps[Top.pkg].deps[Top.pkgVersion]
Dep == DepsVersions[Top.i].dep
DepVersions == DepsVersions[Top.i].versions

NoRaise == [raised |-> FALSE, pkg |-> "", pkgVersion |-> None, entry |-> <<>>, exit |-> <<>>]

EdgesIdle ==
    /\ reqs_lt = {}
    /\ reqs_gte = {}
    /\ appended = <<>>
    /\ appendError = "none"

IngestIdle ==
    /\ allEdges = <<>>
    /\ calls = <<>>
    /\ ingestError = "none"

DiscoveryIdle ==
    /\ source = "none"
    /\ phase = "idle"
    /\ edgeVersions = <<>>
    /\ candidates = <<>>

\* No comparison made, no bump made.
NoResult == [op |-> "none"]

VersionsIdle ==
    /\ va = None
    /\ vb = None
    /\ compared = NoResult
    /\ bumped = NoResult

RangesIdle ==
    /\ rangeSet = <<>>
    /\ otherSet = <<>>
    /\ given = <<>>
    /\ answer = NoResult

TextIdle ==
    /\ text = <<>>
    /\ partialMode = FALSE
    /\ trip = NoResult

\* State.__init__
Init ==
    /\ \E input \in Inputs :
        /\ scenario = input.scenario
        /\ pkgsVersionsDeps = input.pkgsVersionsDeps
        /\ root = input.root
    /\ pkgsLocked = [pkg \in DOMAIN pkgsVersionsDeps |-> None]
    /\ failedVersions = [pkg \in DOMAIN pkgsVersionsDeps |-> {}]
    /\ stack = <<>>
    /\ ret = "none"
    /\ outcome = "init"
    /\ attempts = <<>>
    /\ skipped = {}
    /\ lastRaise = NoRaise
    /\ EdgesIdle
    /\ IngestIdle
    /\ DiscoveryIdle
    /\ VersionsIdle
    /\ RangesIdle
    /\ TextIdle

\* solve: state.attempt_pkg_traversal(root)
Solve ==
    /\ outcome = "init"
    /\ outcome' = "running"
    /\ stack' = <<Frame("attempt_pkg_traversal", root, None, pkgsLocked)>>
    /\ UNCHANGED <<scenario, pkgsVersionsDeps, root, pkgsLocked, failedVersions, ret,
                   attempts, skipped, lastRaise>>
    /\ UNCHANGED nonSolverVars

\* attempt_pkg_traversal, edge.py:299-302: pkg is locked already, traverse the
\* locked version.
PkgLocked ==
    /\ InPkg /\ Top.pc = "start" /\ ret = "none"
    /\ pkgsLocked[Top.pkg] # None
    /\ stack' = Append(SetTop([Top EXCEPT !.pc = "locked_call"]),
                       Frame("attempt_pkgVersion_traversal", Top.pkg,
                             pkgsLocked[Top.pkg], pkgsLocked))
    /\ UNCHANGED <<scenario, pkgsVersionsDeps, root, pkgsLocked, failedVersions, ret,
                   outcome, attempts, skipped, lastRaise>>
    /\ UNCHANGED nonSolverVars

\* edge.py:302-303: the traversal of the locked version ended; return, or let
\* its exception pass (the call is in no try block).
PkgLockedEnd ==
    /\ InPkg /\ Top.pc = "locked_call" /\ ret # "none"
    /\ stack' = Pop
    /\ UNCHANGED <<scenario, pkgsVersionsDeps, root, pkgsLocked, failedVersions, ret,
                   outcome, attempts, skipped, lastRaise>>
    /\ UNCHANGED nonSolverVars

\* The keys of pkgsVersionsDeps[pkg] from index i on that the loop does not skip.
KeysLeft(frame) ==
    {j \in frame.i..Len(pkgsVersionsDeps[frame.pkg].keys) :
        pkgsVersionsDeps[frame.pkg].keys[j] \notin failedVersions[frame.pkg]}

\* The key the loop of attempt_pkg_traversal takes next: keys() in dict order.
NextKey(left) == CHOOSE j \in left : \A k \in left : j <= k

\* edge.py:305-312: the next version of pkg that has not failed is locked and
\* traversed.
PkgTry ==
    /\ InPkg /\ Top.pc \in {"start", "loop"} /\ ret = "none"
    /\ pkgsLocked[Top.pkg] = None
    /\ KeysLeft(Top) # {}
    /\ LET j == NextKey(KeysLeft(Top))
           pkgVersion == pkgsVersionsDeps[Top.pkg].keys[j]
       IN  /\ pkgsLocked' = Lock(pkgsLocked, Top.pkg, pkgVersion)
           /\ attempts' = Append(attempts, pkgVersion)
           /\ stack' = Append(SetTop([Top EXCEPT !.pc = "try_call", !.i = j + 1]),
                              Frame("attempt_pkgVersion_traversal", Top.pkg, pkgVersion,
                                    pkgsLocked'))
    /\ UNCHANGED <<scenario, pkgsVersionsDeps, root, failedVersions, ret, outcome,
                   skipped, lastRaise>>
    /\ UNCHANGED nonSolverVars

\* edge.py:317: no version is left, raise NotSolved.
PkgExhausted ==
    /\ InPkg /\ Top.pc \in {"start", "loop"} /\ ret = "none"
    /\ pkgsLocked[Top.pkg] = None
    /\ KeysLeft(Top) = {}
    /\ stack' = Pop
    /\ ret' = "NotSolved"
    /\ UNCHANGED <<scenario, pkgsVersionsDeps, root, pkgsLocked, failedVersions,
                   outcome, attempts, skipped, lastRaise>>
    /\ UNCHANGED nonSolverVars

\* edge.py:312-313: the traversal of pkgVersion ended without NotSolved; return
\* (or let another exception pass).
PkgTryEnd ==
    /\ InPkg /\ Top.pc = "try_call" /\ ret \notin {"none", "NotSolved"}
    /\ stack' = Pop
    /\ UNCHANGED <<scenario, pkgsVersionsDeps, root, pkgsLocked, failedVersions, ret,
                   outcome, attempts, skipped, lastRaise>>
    /\ UNCHANGED nonSolverVars

\* edge.py:314-315: except NotSolved: self._handle_not_solved() is called
\* without the two arguments _handle_not_solved(self, pkg, pkgVersion) needs:
\* Python raises TypeError before the body runs, nothing is unlocked or
\* recorded, and the TypeError leaves attempt_pkg_traversal.
PkgTryNotSolved ==
    /\ InPkg /\ Top.pc = "try_call" /\ ret = "NotSolved"
    /\ stack' = Pop
    /\ ret' = "TypeError"
    /\ UNCHANGED <<scenario, pkgsVersionsDeps, root, pkgsLocked, failedVersions,
                   outcome, attempts, skipped, lastRaise>>
    /\ UNCHANGED nonSolverVars

\* attempt_pkgVersion_traversal, edge.py:323: every item of depsVersions is
\* done, the call returns.
VerReturn ==
    /\ InPkgVersion /\ Top.pc = "start" /\ ret = "none"
    /\ Top.i > Len(DepsVersions)
    /\ stack' = Pop
    /\ ret' = "ok"
    /\ UNCHANGED <<scenario, pkgsVersionsDeps, root, pkgsLocked, failedVersions,
                   outcome, attempts, skipped, lastRaise>>
    /\ UNCHANGED nonSolverVars

\* A test that accepts every locked version.
AcceptsAny(depVersions, lockedDepVersion) == TRUE

\* lockedDepVersion in depVersions (edge.py:326)
Accepts(depVersions, lockedDepVersion) == lockedDepVersion \in depVersions

\* edge.py:324-332: dep is locked to a version of depVersions: continue.
VerDepLockedOk ==
    /\ InPkgVersion /\ Top.pc = "start" /\ ret = "none"
    /\ Top.i <= Len(DepsVersions)
    /\ pkgsLocked[Dep] # None
    /\ Accepts(DepVersions, pkgsLocked[Dep])
    /\ stack' = SetTop([Top EXCEPT !.i = @ + 1])
    /\ UNCHANGED <<scenario, pkgsVersionsDeps, root, pkgsLocked, failedVersions, ret,
                   outcome, attempts, skipped, lastRaise>>
    /\ UNCHANGED nonSolverVars

\* edge.py:333-334: dep is locked to a version outside depVersions: raise
\* NotSolved at once; lockedHere is not unlocked.
VerDepLockedConflict ==
    /\ InPkgVersion /\ Top.pc = "start" /\ ret = "none"
    /\ Top.i <= Len(DepsVersions)
    /\ pkgsLocked[Dep] # None
    /\ ~Accepts(DepVersions, pkgsLocked[Dep])
    /\ stack' = Pop
    /\ ret' = "NotSolved"
    /\ lastRaise' = [raised |-> TRUE, pkg |-> Top.pkg, pkgVersion |-> Top.pkgVersion,
                     entry |-> Top.entry, exit |-> pkgsLocked]
    /\ UNCHANGED <<scenario, pkgsVersionsDeps, root, pkgsLocked, failedVersions,
                   outcome, attempts, skipped>>
    /\ UNCHANGED nonSolverVars

\* edge.py:336: dep is not locked: the loop over reversed(depVersions) begins.
VerDepUnlocked ==
    /\ InPkgVersion /\ Top.pc = "start" /\ ret = "none"
    /\ Top.i <= Len(DepsVersions)
    /\ pkgsLocked[Dep] = None
    /\ stack' = SetTop([Top EXCEPT !.pc = "for", !.todo = DepVersions])
    /\ UNCHANGED <<scenario, pkgsVersionsDeps, root, pkgsLocked, failedVersions, ret,
                   outcome, attempts, skipped, lastRaise>>
    /\ UNCHANGED nonSolverVars

\* edge.py:336-342: the greatest version left that has not failed is locked
\* and attempt_pkg_traversal(dep) called; the failed ones above it are skipped.
VerTry ==
    /\ InPkgVersion /\ Top.pc = "for"
    /\ NotFailed(Top.todo, failedVersions[Dep]) # {}
    /\ LET depVersion == MaxVersion(NotFailed(Top.todo, failedVersions[Dep]))
       IN  /\ pkgsLocked' = Lock(pkgsLocked, Dep, depVersion)
           /\ skipped' = skipped \cup
                {<<Dep, v>> : v \in {u \in Top.todo : VersionGt(u, depVersion)}}
           /\ stack' = Append(SetTop([Top EXCEPT !.pc = "call",
                                                 !.depVersion = depVersion,
                                                 !.todo = {u \in @ : VersionLt(u, depVersion)}]),
                              Frame("attempt_pkg_traversal", Dep, None, pkgsLocked'))
    /\ UNCHANGED <<scenario, pkgsVersionsDeps, root, failedVersions, ret, outcome,
                   attempts, lastRaise>>
    /\ UNCHANGED nonSolverVars

\* edge.py:343-344: dep was solved: it is recorded in lockedHere, break.
VerCallOk ==
    /\ InPkgVersion /\ Top.pc = "call" /\ ret = "ok"
    /\ stack' = SetTop([Top EXCEPT !.pc = "start", !.i = @ + 1,
                                   !.lockedHere = Append(@, Dep)])
    /\ ret' = "none"
    /\ UNCHANGED <<scenario, pkgsVersionsDeps, root, pkgsLocked, failedVersions,
                   outcome, attempts, skipped, lastRaise>>
    /\ UNCHANGED nonSolverVars

\* edge.py:345-346: except NotSolved: self._handle_not_solved(dep, depVersion),
\* and the loop goes on.
VerCallNotSolved ==
    /\ InPkgVersion /\ Top.pc = "call" /\ ret = "NotSolved"
    /\ LET handled == handle_not_solved(pkgsLocked, failedVersions, Dep, Top.depVersion)
       IN  /\ pkgsLocked' = handled.pkgsLocked
           /\ failedVersions' = handled.failedVersions
    /\ stack' = SetTop([Top EXCEPT !.pc = "for"])
    /\ ret' = "none"
    /\ UNCHANGED <<scenario, pkgsVersionsDeps, root, outcome, attempts, skipped,
                   lastRaise>>
    /\ UNCHANGED nonSolverVars

\* edge.py:347-367: the loop ended without break: the dependencies locked in
\* this frame are unlocked and NotSolved raised.
VerExhausted ==
    /\ InPkgVersion /\ Top.pc = "for"
    /\ NotFailed(Top.todo, failedVersions[Dep]) = {}
    /\ pkgsLocked' = Rollback(pkgsLocked, Top.lockedHere)
    /\ skipped' = skipped \cup {<<Dep, v>> : v \in Top.todo}
    /\ stack' = Pop
    /\ ret' = "NotSolved"
    /\ lastRaise' = [raised |-> TRUE, pkg |-> Top.pkg, pkgVersion |-> Top.pkgVersion,
                     entry |-> Top.entry, exit |-> pkgsLocked']
    /\ UNCHANGED <<scenario, pkgsVersionsDeps, root, failedVersions, outcome, attempts>>
    /\ UNCHANGED nonSolverVars

\* edge.py:9-10: attempt_pkg_traversal(root) ended: solve returns
\* state.pkgsLocked, or the exception leaves solve.
SolveEnd ==
    /\ outcome = "running" /\ stack = <<>> /\ ret # "none"
    /\ outcome' = IF ret = "ok" THEN "returned" ELSE ret
    /\ UNCHANGED <<scenario, pkgsVersionsDeps, root, pkgsLocked, failedVersions, stack,
                   ret, attempts, skipped, lastRaise>>
    /\ UNCHANGED nonSolverVars

Next ==
    \/ Solve
    \/ PkgLocked
    \/ PkgLockedEnd
    \/ PkgTry
    \/ PkgExhausted
    \/ PkgTryEnd
    \/ PkgTryNotSolved
    \/ VerReturn
    \/ VerDepLockedOk
    \/ VerDepLockedConflict
    \/ VerDepUnlocked
    \/ VerTry
    \/ VerCallOk
    \/ VerCallNotSolved
    \/ VerExhausted
    \/ SolveEnd

Spec == Init /\ [][Next]_vars

-----------------------------------------------------------------------------
(* The claims about the resolver. *)

Done == outcome \notin {"init", "running"}

Keys(pkg) == Range(pkgsVersionsDeps[pkg].keys)

\* locked satisfies the candidate sets of every dependency of every package
\* it locks.
Satisfied(locked) ==
    \A pkg \in DOMAIN locked :
        locked[pkg] # None =>
            LET deps == pkgsVersionsDeps[pkg].deps[locked[pkg]]
            IN  \A i \in 1..Len(deps) :
                    /\ locked[deps[i].dep] # None
                    /\ locked[deps[i].dep] \in deps[i].versions

\* The assignments of one version (or none) per package that lock the root.
Assignments ==
    {asg \in [DOMAIN pkgsVersionsDeps -> UNION {Keys(pkg) : pkg \in DOMAIN pkgsVersionsDeps}
                                          \cup {None}] :
        /\ asg[root] # None
        /\ \A pkg \in DOMAIN asg : asg[pkg] # None => asg[pkg] \in Keys(pkg)}

SolutionExists == \E asg \in Assignments : Satisfied(asg)

\* C1: soundness of the resolver. Whenever solve returns, every dependency of
\* every locked (package, version) is locked, to a version of its candidate set.
C1_Soundness == outcome = "returned" => Satisfied(pkgsLocked)

\* C2: rollback on failure. Whenever attempt_pkgVersion_traversal raises
\* NotSolved the lock map is the one the call began with, and no package is
\* locked when NotSolved leaves solve.
C2_Rollback ==
    /\ lastRaise.raised => lastRaise.exit = lastRaise.entry
    /\ outcome = "NotSolved" => \A pkg \in DOMAIN pkgsLocked : pkgsLocked[pkg] = None

\* C3: completeness of the resolver. solve raises NotSolved only when no
\* satisfying assignment that locks the root exists, and returns when one does.
C3_Completeness ==
    /\ outcome = "NotSolved" => ~SolutionExists
    /\ (Done /\ SolutionExists) => outcome = "returned"

SimpleLocked(versionE) ==
    /\ pkgsLocked["pkgA"] = V(2, 3, 0)
    /\ pkgsLocked["pkgB"] = V(1, 2, 0)
    /\ pkgsLocked["pkgE"] = versionE

NoFailure == \A pkg \in DOMAIN failedVersions : failedVersions[pkg] = {}

\* C4 as stated: in the simple scenario solve returns with pkgA 2.3.0,
\* pkgB 1.2.0 and pkgE 1.9.0 locked, and nothing enters the failure cache.
C4_SimpleLocksE190 ==
    scenario = "simple" =>
        /\ NoFailure
        /\ outcome \notin {"NotSolved", "TypeError"}
        /\ outcome = "returned" => SimpleLocked(V(1, 9, 0))

\* C4 as amended: in the simple scenario solve returns with pkgA 2.3.0,
\* pkgB 1.2.0 and pkgE 2.3.0 locked (2.3.0 is the newest candidate of pkgE
\* in [1.5.0, 2.5.0)), and nothing enters the failure cache.
C4_SimpleLocksE230 ==
    scenario = "simple" =>
        /\ NoFailure
        /\ outcome \notin {"NotSolved", "TypeError"}
        /\ outcome = "returned" => SimpleLocked(V(2, 3, 0))

C4_Witness == scenario = "simple" /\ outcome = "returned" /\ pkgsLocked["pkgE"] # None

\* C5: termination. solve ends by returning the lock map or by raising
\* NotSolved, and in no other way.
C5_EndsByReturnOrNotSolved == Done => outcome \in {"returned", "NotSolved"}

\* C6: failure memoization. A version in the failure cache of a package stays
\* in it, and the package is never locked to it again.
C6_FailureMemoization ==
    [][\A pkg \in DOMAIN failedVersions : \A v \in failedVersions[pkg] :
            /\ v \in failedVersions'[pkg]
            /\ pkgsLocked'[pkg] # v]_vars

\* A candidate loop has passed over a version because it was in the failure cache.
C6_Witness == \E pv \in skipped : pv[2] \in failedVersions[pv[1]]

\* C7: newest first. The first version attempt_pkg_traversal locks is the
\* greatest version of the package (the failure cache is empty then), and
\* every later attempt is a smaller one.
C7_NewestFirst ==
    /\ attempts # <<>> => attempts[1] = MaxVersion(Keys(root))
    /\ \A k \in 2..Len(attempts) : VersionLt(attempts[k], attempts[k - 1])

\* C8: exhaustion. When the versions attempt_pkg_traversal tried have all
\* failed, each is in the failure cache of the package, the package is
\* unlocked, and the call has ended by raising NotSolved.
C8_Exhaustion ==
    (Done /\ outcome # "returned") =>
        /\ outcome = "NotSolved"
        /\ \A k \in 1..Len(attempts) : attempts[k] \in failedVersions[root]
        /\ pkgsLocked[root] = None

-----------------------------------------------------------------------------
(* The edge accumulator on its own: requirements appended to an Edges(). *)

\* The identifier "alpha" of a prerelease.
Alpha == Identifier(FALSE, 0)

\* The non-partial versions of the requirements: numbers 0..MaxNum, with and
\* without a prerelease.
ReqVersions ==
    {Version(major, minor, patch, prerelease, <<>>, FALSE) :
        major \in 0..MaxNum, minor \in 0..MaxNum, patch \in 0..MaxNum,
        prerelease \in {<<>>, <<Alpha>>}}

VersionKinds ==
    {KIND_LT, KIND_LTE, KIND_EQUAL, KIND_SHORTEQ, KIND_GTE, KIND_GT, KIND_NEQ,
     KIND_CARET, KIND_TILDE, KIND_COMPATIBLE}

\* VersionReq.parse(s, partial=False) of every kind; '*' carries no version.
Requirements ==
    {VersionReq(kind, version) : kind \in VersionKinds, version \in ReqVersions}
    \cup {VersionReq(KIND_ANY, NoVersion)}

SolverIdle ==
    /\ scenario = "edges"
    /\ pkgsVersionsDeps = <<>>
    /\ root = ""
    /\ pkgsLocked = <<>>
    /\ failedVersions = <<>>
    /\ stack = <<>>
    /\ ret = "none"
    /\ outcome = "idle"
    /\ attempts = <<>>
    /\ skipped = {}
    /\ lastRaise = NoRaise

\* Edges()
InitEdges ==
    /\ reqs_lt = {}
    /\ reqs_gte = {}
    /\ appended = <<>>
    /\ appendError = "none"
    /\ SolverIdle
    /\ IngestIdle
    /\ DiscoveryIdle
    /\ VersionsIdle
    /\ RangesIdle
    /\ TextIdle

\* e.append(req)
EdgesAppend(req) ==
    /\ Len(appended) < MaxAppends
    /\ appendError = "none"
    /\ LET edges == append([reqs_lt |-> reqs_lt, reqs_gte |-> reqs_gte, error |-> "none"],
                           req)
       IN  /\ reqs_lt' = edges.reqs_lt
           /\ reqs_gte' = edges.reqs_gte
           /\ appendError' = edges.error
    /\ appended' = Append(appended, req)
    /\ UNCHANGED <<solverVars, ingestVars, discoveryVars, versionVars, rangeVars, textVars>>

NextEdges == \E req \in Requirements : EdgesAppend(req)

SpecEdges == InitEdges /\ [][NextEdges]_vars

\* The bounds the table of the claim gives for a requirement:
\* [upper |-> the versions V of its UpperBound(V) edges, lower |-> those of
\* its LowerBound(V) edges].
TableBounds(req) ==
    LET ver == req.version
        rangeUpper == IF req.kind = KIND_CARET
                      THEN (IF ver.major # 0 THEN next_major(ver)
                            ELSE IF ver.minor # 0 THEN next_minor(ver)
                            ELSE next_patch(ver))
                      ELSE next_minor(ver)
    IN  CASE req.kind = KIND_LT -> [upper |-> {ver}, lower |-> {}]
          [] req.kind = KIND_LTE -> [upper |-> {next_patch(ver)}, lower |-> {}]
          [] req.kind = KIND_GT -> [upper |-> {}, lower |-> {next_patch(ver)}]
          [] req.kind \in {KIND_GTE, KIND_EQUAL, KIND_SHORTEQ} ->
                [upper |-> {}, lower |-> {ver}]
          [] req.kind = KIND_NEQ -> [upper |-> {ver}, lower |-> {next_patch(ver)}]
          [] req.kind = KIND_ANY -> [upper |-> {}, lower |-> {V(0, 0, 1)}]
          [] req.kind \in {KIND_CARET, KIND_TILDE, KIND_COMPATIBLE} ->
                [upper |-> {rangeUpper}, lower |-> {ver}]

\* C10: the edge normalization table. One requirement with a non-partial
\* version appended to an empty accumulator gives exactly the UpperBound and
\* LowerBound edges of the table, and no error.
C10_EdgeTable ==
    Len(appended) = 1 =>
        /\ appendError = "none"
        /\ reqs_lt = {VersionReq(KIND_LT, v) : v \in TableBounds(appended[1]).upper}
        /\ reqs_gte = {VersionReq(KIND_GTE, v) : v \in TableBounds(appended[1]).lower}

\* <= 1.1.0 has been appended to an empty accumulator and has given < 1.1.1.
C10_Witness ==
    /\ appended = <<VersionReq(KIND_LTE, V(1, 1, 0))>>
    /\ reqs_lt = {VersionReq(KIND_LT, V(1, 1, 1))}
    /\ reqs_gte = {}

-----------------------------------------------------------------------------
(* PkgsEdges: the accumulators of all dependencies under a sequence of calls. *)

\* number of calls on the PkgsEdges in one run of SpecIngest
MaxCalls == 2

\* A requirement source whose second item has a version that cannot be
\* resolved: pkgA 1.0.0 requires pkgB >=1.0.0 and pkgE ~1.
UnresolvedSource ==
    [pkgs |-> <<"pkgA">>,
     versions |-> [pkg \in {"pkgA"} |-> <<V(1, 0, 0)>>],
     deps |-> [pv \in {"pkgA"} \X {V(1, 0, 0)} |->
        <<[dep |-> "pkgB", specs |-> <<S1(KIND_GTE, PartialV(1, 0, 0))>>],
          [dep |-> "pkgE", specs |-> <<S1(KIND_TILDE, PartialV(1, NoneInt, NoneInt))>>]>>]]

\* The lists of Spec given to extend_specs: Spec.from_str of "^1.0.0",
\* ">=1.0.0,<3.0.0", "!=1.2.0" and "<=1.2.0", ">=1.0.0,<2" and "~1".
IngestSpecs ==
    {<<S1(KIND_CARET, PartialV(1, 0, 0))>>,
     <<S2(KIND_GTE, PartialV(1, 0, 0), KIND_LT, PartialV(3, 0, 0))>>,
     <<S1(KIND_NEQ, PartialV(1, 2, 0)), S1(KIND_LTE, PartialV(1, 2, 0))>>,
     <<S2(KIND_GTE, PartialV(1, 0, 0), KIND_LT, PartialV(2, NoneInt, NoneInt))>>,
     <<S1(KIND_TILDE, PartialV(1, NoneInt, NoneInt))>>}

\* The requirements given to Edges.append: "<2.0.0", ">1.0.0-alpha" parsed
\* with partial=False, "*", and "==1.2" parsed with partial=True.
IngestReqs ==
    {VersionReq(KIND_LT, V(2, 0, 0)),
     VersionReq(KIND_GT, Version(1, 0, 0, <<Identifier(FALSE, 0)>>, <<>>, FALSE)),
     VersionReq(KIND_ANY, NoVersion),
     VersionReq(KIND_EQUAL, PartialV(1, 2, NoneInt))}

IngestPkgs == {"pkgB", "pkgE"}

IngestSources == {pkgsVersionsSpecsSimple(VersionsE9), UnresolvedSource}

\* PkgsEdges()
InitIngest ==
    /\ allEdges = NewPkgsEdges
    /\ calls = <<>>
    /\ ingestError = "none"
    /\ SolverIdle
    /\ EdgesIdle
    /\ DiscoveryIdle
    /\ VersionsIdle
    /\ RangesIdle
    /\ TextIdle

\* The call has ended: the PkgsEdges it leaves and the error it raised.
Ingested(result, call) ==
    /\ allEdges' = [d \in DOMAIN result |-> [result[d] EXCEPT !.error = "none"]]
    /\ ingestError' = Raised(result)
    /\ calls' = Append(calls, call)
    /\ UNCHANGED <<solverVars, edgeVars, discoveryVars, versionVars, rangeVars, textVars>>

\* pkgsEdges.extend_specs(pkg, specs)
IngestExtendSpecs(pkg, specs) ==
    /\ Len(calls) < MaxCalls
    /\ Ingested(extend_specs(allEdges, pkg, specs),
                [op |-> "extend_specs", pkg |-> pkg, arg |-> specs])

\* pkgsEdges[pkg].append(req)
IngestAppend(pkg, req) ==
    /\ Len(calls) < MaxCalls
    /\ pkg \in DOMAIN allEdges
    /\ Ingested([allEdges EXCEPT ![pkg] = append(@, req)],
                [op |-> "append", pkg |-> pkg, arg |-> req])

\* pkgsEdges.update(pkgsVersionsSpecs)
IngestUpdate(pvs) ==
    /\ Len(calls) < MaxCalls
    /\ Ingested(update(allEdges, pvs), [op |-> "update", pkg |-> "", arg |-> pvs])

NextIngest ==
    \/ \E pkg \in IngestPkgs, specs \in IngestSpecs : IngestExtendSpecs(pkg, specs)
    \/ \E pkg \in IngestPkgs, req \in IngestReqs : IngestAppend(pkg, req)
    \/ \E pvs \in IngestSources : IngestUpdate(pvs)

SpecIngest == InitIngest /\ [][NextIngest]_vars

\* The requirements of a list of Spec.
ReqsOfSpecs(specs) == UNION {Range(specs[i]) : i \in 1..Len(specs)}

\* The requirements a requirement source states for dep, over all consumers.
ReqsOfSource(pvs, dep) ==
    UNION {UNION {ReqsOfSpecs(pvs.deps[pv][k].specs) :
                    k \in {j \in 1..Len(pvs.deps[pv]) : pvs.deps[pv][j].dep = dep}} :
            pv \in DOMAIN pvs.deps}

\* The requirements a call has ingested for dep.
ReqsOfCall(call, dep) ==
    CASE call.op = "update" -> ReqsOfSource(call.arg, dep)
      [] call.op = "extend_specs" -> IF call.pkg = dep THEN ReqsOfSpecs(call.arg) ELSE {}
      [] call.op = "append" -> IF call.pkg = dep THEN {call.arg} ELSE {}

ReqsIngested(dep) == UNION {ReqsOfCall(calls[k], dep) : k \in 1..Len(calls)}

\* The version of the requirement is known in full (or the requirement is '*').
Resolved(req) ==
    req.version = NoVersion \/ (req.version.minor # NoneInt /\ req.version.patch # NoneInt)

AllResolved == \A dep \in IngestPkgs : \A req \in ReqsIngested(dep) : Resolved(req)

\* The normalized edges of a requirement.
Normalized(req) == EdgesOfReq(req.kind, force_non_partial(req.version))

\* C11: union semantics of the accumulator. After any sequence of calls that
\* ingest requirements with resolved versions, the two sets of a dependency
\* are the unions of the normalized edges of every requirement ingested for
\* it, whatever the order and the repetitions.
C11_UnionSemantics ==
    AllResolved =>
        \A dep \in DOMAIN allEdges :
            /\ allEdges[dep].reqs_lt = UNION {Normalized(req).lt : req \in ReqsIngested(dep)}
            /\ allEdges[dep].reqs_gte = UNION {Normalized(req).gte : req \in ReqsIngested(dep)}

\* The same source has been ingested twice, and pkgE holds the lower bounds
\* of several consumers side by side.
C11_Witness ==
    /\ Len(calls) = 2
    /\ calls[1] = calls[2]
    /\ calls[1].op = "update"
    /\ AllResolved
    /\ Cardinality(allEdges["pkgE"].reqs_gte) > 1
    /\ Cardinality(allEdges["pkgE"].reqs_lt) > 1

\* C12: monotonic accumulator. Every edge an accumulator holds is still in
\* it after every later append, extend_specs and update.
C12_Monotonic ==
    [][\A dep \in DOMAIN allEdges :
            /\ dep \in DOMAIN allEdges'
            /\ allEdges[dep].reqs_lt \subseteq allEdges'[dep].reqs_lt
            /\ allEdges[dep].reqs_gte \subseteq allEdges'[dep].reqs_gte]_vars

\* A second call has added lower bounds to an accumulator that still holds
\* the lower bounds of the first call.
C12_Witness ==
    /\ Len(calls) = 2
    /\ AllResolved
    /\ \E dep \in DOMAIN allEdges :
        LET first == UNION {Normalized(req).gte : req \in ReqsOfCall(calls[1], dep)}
        IN  /\ first # {}
            /\ first \subseteq allEdges[dep].reqs_gte
            /\ first # allEdges[dep].reqs_gte

\* Every edge of every accumulator carries a version known in full.
NonPartialEdges(pkgsEdges) ==
    \A dep \in DOMAIN pkgsEdges :
        \A e \in pkgsEdges[dep].reqs_lt \cup pkgsEdges[dep].reqs_gte :
            /\ ~e.version.partial
            /\ e.version.minor # NoneInt /\ e.version.patch # NoneInt
            /\ e.version.prerelease # NoneSeq /\ e.version.build # NoneSeq

\* The call just made (in the state a step leads to).
LastCall == calls[Len(calls)]

\* The requirements a call hands over, for any dependency.
ReqsOfAnyDep(call) == UNION {ReqsOfCall(call, dep) : dep \in IngestPkgs}

\* C13: edges are never partial. Every edge of every accumulator carries a
\* non-partial version, and a call that hands over a requirement whose
\* version is still partial ends in an error (and any other call in none).
C13_NeverPartial ==
    [][/\ NonPartialEdges(allEdges')
       /\ ingestError' = IF \E req \in ReqsOfAnyDep(LastCall') : ~Resolved(req)
                         THEN "TypeError" ELSE "none"]_vars

\* "==1.2" has been appended to an accumulator that holds edges, and the
\* call has ended in an error.
C13_Witness ==
    /\ calls # <<>>
    /\ LastCall.op = "append"
    /\ ~Resolved(LastCall.arg)
    /\ ingestError = "TypeError"
    /\ allEdges[LastCall.pkg].reqs_gte # {}

RECURSIVE Concat(_, _)
Concat(seqs, i) == IF i > Len(seqs) THEN <<>> ELSE seqs[i] \o Concat(seqs, i + 1)

\* The [dep, req] pairs of a call in the order the call processes them.
ItemsOfCall(call) ==
    LET items(dep, specs) ==
            LET reqs == Concat(specs, 1)
            IN  [k \in 1..Len(reqs) |-> [dep |-> dep, req |-> reqs[k]]]
        entries == Entries(call.arg, 1)
    IN  CASE call.op = "append" -> <<[dep |-> call.pkg, req |-> call.arg]>>
          [] call.op = "extend_specs" -> items(call.pkg, call.arg)
          [] call.op = "update" ->
                Concat([k \in 1..Len(entries) |-> items(entries[k].dep, entries[k].specs)], 1)

\* The items of a call before the first one with a version still partial.
AcceptedItems(call) ==
    LET items == ItemsOfCall(call)
        bad == {k \in 1..Len(items) : ~Resolved(items[k].req)}
    IN  {items[k] : k \in {j \in 1..Len(items) : \A b \in bad : j < b}}

\* The edges dep holds in pkgsEdges: none when it has no accumulator yet.
HeldBy(pkgsEdges, dep) ==
    IF dep \in DOMAIN pkgsEdges
    THEN [lt |-> pkgsEdges[dep].reqs_lt, gte |-> pkgsEdges[dep].reqs_gte]
    ELSE [lt |-> {}, gte |-> {}]

\* C14: normalization errors do not corrupt state. When a call ends in an
\* error, every accumulator holds what it held before the rejected
\* requirement was processed: its edges before the call and the edges of the
\* requirements the call accepted before that one, and nothing else.
C14_ErrorKeepsState ==
    [][ingestError' # "none" =>
        \A dep \in IngestPkgs :
            LET accepted == {item \in AcceptedItems(LastCall') : item.dep = dep}
            IN  /\ HeldBy(allEdges', dep).lt = HeldBy(allEdges, dep).lt
                        \cup UNION {Normalized(item.req).lt : item \in accepted}
                /\ HeldBy(allEdges', dep).gte = HeldBy(allEdges, dep).gte
                        \cup UNION {Normalized(item.req).gte : item \in accepted}]_vars

\* ">=1.0.0,<2" has been ingested for a dependency that held edges: the call
\* has ended in an error after its first requirement was accepted.
C14_Witness ==
    /\ Len(calls) = 2
    /\ ingestError = "TypeError"
    /\ LastCall.op = "extend_specs"
    /\ AcceptedItems(LastCall) # {}
    /\ AcceptedItems(calls[1]) # {}
    /\ calls[1].pkg = LastCall.pkg

-----------------------------------------------------------------------------
(* Candidate discovery: PkgsEdges.update over a requirement source, then     *)
(* retrieve_edge_versions over a catalogue, then filter_update.              *)

\* The keys of a SortedDict of versions: ascending.
RECURSIVE SortedKeys(_)
SortedKeys(versions) ==
    IF versions = {} THEN <<>>
    ELSE LET least == CHOOSE v \in versions : \A u \in versions : ~VersionLt(u, v)
         IN  <<least>> \o SortedKeys(versions \ {least})

\* pkgsSpecs of test_initiailze_simple and test_retrieve_simple: the entry of
\* pkgA alone.
SimpleSourceA ==
    LET simple == pkgsVersionsSpecsSimple(VersionsE12)
    IN  [pkgs |-> <<"pkgA">>,
         versions |-> [pkg \in {"pkgA"} |-> simple.versions[pkg]],
         deps |-> [pv \in {"pkgA"} \X {V(2, 3, 0)} |-> simple.deps[pv]]]

\* The requirements VersionReq.parse(s, partial=False) can give: '=' is
\* turned into '==' (KIND_ALIASES).
ParsedReqs == {req \in Requirements : req.kind # KIND_SHORTEQ}

\* A source with two consumers of pkgB: pkgA 1.0.0 requires pkgB via req;
\* pkgC 1.0.0 requires pkgB >=1.0.0 and the root pkgA >=3.0.0.
GenSource(req) ==
    [pkgs |-> <<"pkgA", "pkgC">>,
     versions |-> [pkg \in {"pkgA", "pkgC"} |-> <<V(1, 0, 0)>>],
     deps |-> [pv \in {"pkgA", "pkgC"} \X {V(1, 0, 0)} |->
        IF pv[1] = "pkgA"
        THEN <<[dep |-> "pkgB", specs |-> <<<<req>>>>]>>
        ELSE <<[dep |-> "pkgB", specs |-> <<S1(KIND_GTE, V(1, 0, 0))>>],
               [dep |-> "pkgA", specs |-> <<S1(KIND_GTE, V(3, 0, 0))>>]>>]]

\* Catalogues: pkgB with every version of ReqVersions, with two versions,
\* and not in the catalogue at all.
Catalogues ==
    {[versions |-> [pkg \in {"pkgA", "pkgB"} |->
                        IF pkg = "pkgA" THEN <<V(1, 0, 0)>> ELSE SortedKeys(ReqVersions)]],
     [versions |-> [pkg \in {"pkgA", "pkgB"} |->
                        IF pkg = "pkgA" THEN <<V(1, 0, 0)>> ELSE <<V(0, 1, 0), V(1, 1, 0)>>]],
     [versions |-> [pkg \in {"pkgA"} |-> <<V(1, 0, 0)>>]]}

\* The inputs of candidate discovery: name, requirement source pvs,
\* catalogue db and root.
DiscoveryInputs ==
    {[name |-> "simpleA", pvs |-> SimpleSourceA, db |-> pkgsVersionsSpecsSimple(versionsE),
      root |-> "pkgA"] : versionsE \in {VersionsE12, VersionsE9}}
    \cup {[name |-> "simple", pvs |-> pkgsVersionsSpecsSimple(versionsE),
           db |-> pkgsVersionsSpecsSimple(versionsE), root |-> "pkgA"] :
            versionsE \in {VersionsE12, VersionsE9}}
    \cup {[name |-> "generated", pvs |-> GenSource(req), db |-> db, root |-> "pkgA"] :
            req \in ParsedReqs, db \in Catalogues}

InitDiscovery ==
    /\ source \in DiscoveryInputs
    /\ phase = "start"
    /\ allEdges = NewPkgsEdges
    /\ calls = <<>>
    /\ ingestError = "none"
    /\ edgeVersions = <<>>
    /\ candidates = <<>>
    /\ SolverIdle
    /\ EdgesIdle
    /\ VersionsIdle
    /\ RangesIdle
    /\ TextIdle

\* edges = PkgsEdges(); edges.update(pkgsSpecs)
DiscoverEdges ==
    /\ phase = "start"
    /\ allEdges' = update(allEdges, source.pvs)
    /\ phase' = "edges"
    /\ UNCHANGED <<solverVars, edgeVars, versionVars, rangeVars, textVars, calls, ingestError, source,
                   edgeVersions, candidates>>

\* pkgVersions = retrieve_edge_versions(my_retriever, edges)
Retrieve ==
    /\ phase = "edges"
    /\ edgeVersions' = retrieve_edge_versions(source.db, allEdges)
    /\ phase' = "retrieved"
    /\ UNCHANGED <<solverVars, edgeVars, versionVars, rangeVars, textVars, ingestVars, source, candidates>>

\* PkgsVersionsDepsVersions().filter_update(root, pkgsVersionsSpecs, pkgVersions)
FilterUpdate ==
    /\ phase = "retrieved"
    /\ candidates' = filter_update(source.root, source.pvs, edgeVersions)
    /\ phase' = "filtered"
    /\ UNCHANGED <<solverVars, edgeVars, versionVars, rangeVars, textVars, ingestVars, source, edgeVersions>>

NextDiscovery == DiscoverEdges \/ Retrieve \/ FilterUpdate

SpecDiscovery == InitDiscovery /\ [][NextDiscovery]_vars

\* The versions of pkg the catalogue has.
Available(pkg) ==
    IF pkg \in DOMAIN source.db.versions THEN Range(source.db.versions[pkg]) ELSE {}

\* The greatest version of a set, if any, as a set of at most one version.
Greatest(versions) == {v \in versions : \A u \in versions : ~VersionLt(v, u)}

\* The least version of a set, if any.
Least(versions) == {v \in versions : \A u \in versions : ~VersionLt(u, v)}

\* C15: boundary query. The version retrieved for an UpperBound(V) edge is
\* the greatest available version below V, the one for a LowerBound(V) edge
\* the least available version at or above V, and the pool of a package is
\* the set of these versions over its edges; the edges of pkgA in the simple
\* scenario give pkgB {1.0.0, 1.2.0} and pkgE {1.0.0, 2.9.0}.
C15_BoundaryQuery ==
    phase \in {"retrieved", "filtered"} =>
        /\ DOMAIN edgeVersions = DOMAIN allEdges
        /\ \A pkg \in DOMAIN allEdges :
            edgeVersions[pkg] =
                UNION {Greatest({v \in Available(pkg) : VersionLt(v, e.version)}) :
                        e \in allEdges[pkg].reqs_lt}
                \cup UNION {Least({v \in Available(pkg) : VersionGe(v, e.version)}) :
                        e \in allEdges[pkg].reqs_gte}
        /\ source.name = "simpleA" =>
            /\ DOMAIN edgeVersions = {"pkgB", "pkgE"}
            /\ edgeVersions["pkgB"] = {V(1, 0, 0), V(1, 2, 0)}
            /\ edgeVersions["pkgE"] = {V(1, 0, 0), V(2, 9, 0)}

\* The pool of pkgB has been retrieved over an upper and a lower bound that
\* give two different versions, out of a catalogue with more versions.
C15_Witness ==
    /\ phase = "retrieved"
    /\ source.name = "generated"
    /\ allEdges["pkgB"].reqs_lt # {}
    /\ Cardinality(edgeVersions["pkgB"]) >= 2
    /\ Cardinality(Available("pkgB")) > 2

\* The Candidate Set built for (pkg, version, dep), as a set of at most one
\* set of versions: none when filter_update has built no such set.
CandidateSets(pkg, version, dep) ==
    IF pkg \in DOMAIN candidates /\ version \in DOMAIN candidates[pkg].deps
    THEN {candidates[pkg].deps[version][k].versions :
            k \in {j \in 1..Len(candidates[pkg].deps[version]) :
                    candidates[pkg].deps[version][j].dep = dep}}
    ELSE {}

\* The versions of the retrieved pool of item.dep that match every
\* requirement of item.specs.
Matching(item) ==
    {v \in edgeVersions[item.dep] : \A req \in ReqsOfSpecs(item.specs) : match(req, v)}

\* Every (consumer, consumer version, dependency) of the source that obeys
\* the condition has exactly the Candidate Set Matching gives.
CandidatesBuilt(wanted(_)) ==
    \A pv \in DOMAIN source.pvs.deps :
        \A k \in 1..Len(source.pvs.deps[pv]) :
            LET item == source.pvs.deps[pv][k]
            IN  wanted(item.dep) => CandidateSets(pv[1], pv[2], item.dep) = {Matching(item)}

\* C16: Candidate Set construction. After filter_update every (consumer,
\* consumer version, dependency) of the source has a Candidate Set, which
\* holds exactly the versions of the retrieved pool of the dependency that
\* match every requirement of that consumer.
C16_CandidateSets ==
    LET any(dep) == TRUE
    IN  phase = "filtered" => CandidatesBuilt(any)

\* The same for the dependencies other than the root.
C16_CandidateSetsButRoot ==
    LET notRoot(dep) == dep # source.root
    IN  phase = "filtered" => CandidatesBuilt(notRoot)

-----------------------------------------------------------------------------
(* base.py: comparing and bumping two versions. *)

\* Identifiers of the prerelease and build sequences. For the text
\* identifiers val is the rank of the text: alpha < beta < rc.
Beta == Identifier(FALSE, 1)
Rc == Identifier(FALSE, 2)

\* An identifier whose text is the digits of n
Num(n) == Identifier(TRUE, n)

\* The identifier "-1", which the version patterns allow ([0-9a-zA-Z.-]+):
\* _to_int gives it the integer -1, since int("-1") succeeds.
MinusOne == Identifier(TRUE, 0 - 1)

Prereleases ==
    {<<>>, <<Alpha>>, <<Alpha, Num(1)>>, <<Beta, Num(2)>>, <<Beta, Num(11)>>,
     <<Rc, Num(1)>>, <<Num(0)>>, <<MinusOne>>}

Builds == {<<>>, <<Num(1)>>, <<Num(2)>>}

\* values of minor and patch: zero and not zero
LowNumbers == {0, 1}

\* The non-partial versions compared and bumped.
VersionUniverse ==
    {Version(major, minor, patch, prerelease, build, FALSE) :
        major \in 0..MaxNum, minor \in LowNumbers, patch \in LowNumbers,
        prerelease \in Prereleases, build \in Builds}

InitVersions ==
    /\ va \in VersionUniverse
    /\ vb \in VersionUniverse
    /\ compared = NoResult
    /\ bumped = NoResult
    /\ SolverIdle
    /\ EdgesIdle
    /\ IngestIdle
    /\ DiscoveryIdle
    /\ RangesIdle
    /\ TextIdle

\* va.__cmp__(vb) and the six rich comparisons of va with vb
Compare ==
    /\ compared = NoResult
    /\ bumped = NoResult
    /\ compared' = [op |-> "compare",
                    cmp |-> compare(va, vb),
                    eq |-> VersionEq(va, vb),
                    ne |-> VersionNe(va, vb),
                    lt |-> VersionLt(va, vb),
                    le |-> VersionLe(va, vb),
                    gt |-> VersionGt(va, vb),
                    ge |-> VersionGe(va, vb)]
    /\ UNCHANGED <<va, vb, bumped, solverVars, edgeVars, ingestVars, discoveryVars,
                   rangeVars, textVars>>

\* va.next_major()
NextMajor ==
    /\ compared = NoResult
    /\ bumped = NoResult
    /\ bumped' = [op |-> "next_major", result |-> next_major(va)]
    /\ UNCHANGED <<va, vb, compared, solverVars, edgeVars, ingestVars, discoveryVars,
                   rangeVars, textVars>>

\* va.next_minor()
NextMinor ==
    /\ compared = NoResult
    /\ bumped = NoResult
    /\ bumped' = [op |-> "next_minor", result |-> next_minor(va)]
    /\ UNCHANGED <<va, vb, compared, solverVars, edgeVars, ingestVars, discoveryVars,
                   rangeVars, textVars>>

\* va.next_patch()
NextPatch ==
    /\ compared = NoResult
    /\ bumped = NoResult
    /\ bumped' = [op |-> "next_patch", result |-> next_patch(va)]
    /\ UNCHANGED <<va, vb, compared, solverVars, edgeVars, ingestVars, discoveryVars,
                   rangeVars, textVars>>

NextVersions == Compare \/ NextMajor \/ NextMinor \/ NextPatch

SpecVersions == InitVersions /\ [][NextVersions]_vars

\* a and b differ only in build metadata
BuildOnly(a, b) ==
    /\ a.major = b.major
    /\ a.minor = b.minor
    /\ a.patch = b.patch
    /\ a.prerelease = b.prerelease
    /\ a.build # b.build

\* how many of va < vb, va == vb, va > vb hold
HoldingOfThree ==
    Cardinality({r \in {"lt", "eq", "gt"} : compared[r]})

\* a < b and b < c imply a < c, for the a < b compared and every c
Transitive ==
    compared.lt => \A c \in VersionUniverse : VersionLt(vb, c) => VersionLt(va, c)

PurelyNumeric(id) == id.digits /\ id.val >= 0

\* The order of two non-numeric identifiers as text: "-1" is before every
\* text of letters, the texts of letters are in the order of their ranks.
TextBefore(x, y) ==
    IF x.digits THEN ~y.digits
    ELSE ~y.digits /\ x.val < y.val

\* The precedence of two identifiers: numeric ones as integers, a numeric one
\* before a non-numeric one, non-numeric ones as text.
IdentifierBefore(x, y) ==
    IF PurelyNumeric(x) /\ PurelyNumeric(y) THEN x.val < y.val
    ELSE IF PurelyNumeric(x) THEN TRUE
    ELSE IF PurelyNumeric(y) THEN FALSE
    ELSE TextBefore(x, y)

\* Identifier by identifier from the left; a strict prefix is before the
\* longer sequence.
RECURSIVE SequenceBefore(_, _, _)
SequenceBefore(a, b, i) ==
    IF i > Len(a) THEN i <= Len(b)
    ELSE IF i > Len(b) THEN FALSE
    ELSE IF a[i] = b[i] THEN SequenceBefore(a, b, i + 1)
    ELSE IdentifierBefore(a[i], b[i])

\* A version with a prerelease is before the version without one.
PrereleaseBefore(a, b) ==
    IF a = <<>> THEN FALSE
    ELSE IF b = <<>> THEN TRUE
    ELSE SequenceBefore(a, b, 1)

SameNumbers(a, b) == a.major = b.major /\ a.minor = b.minor /\ a.patch = b.patch

\* 1.0.0 with the given prerelease
V100(prerelease) == Version(1, 0, 0, prerelease, <<>>, FALSE)

\* 1.0.0-alpha < 1.0.0-alpha.1 < 1.0.0-beta.2 < 1.0.0-beta.11 < 1.0.0-rc.1 < 1.0.0
Chain ==
    /\ VersionLt(V100(<<Alpha>>), V100(<<Alpha, Num(1)>>))
    /\ VersionLt(V100(<<Alpha, Num(1)>>), V100(<<Beta, Num(2)>>))
    /\ VersionLt(V100(<<Beta, Num(2)>>), V100(<<Beta, Num(11)>>))
    /\ VersionLt(V100(<<Beta, Num(11)>>), V100(<<Rc, Num(1)>>))
    /\ VersionLt(V100(<<Rc, Num(1)>>), V100(<<>>))

\* The comparison of va with vb follows the precedence of their prereleases.
FollowsPrecedence ==
    /\ compared.lt = PrereleaseBefore(va.prerelease, vb.prerelease)
    /\ compared.gt = PrereleaseBefore(vb.prerelease, va.prerelease)

\* C19: prerelease precedence. For versions with equal major.minor.patch a
\* version without prerelease is greater than any with one; two prereleases
\* are compared identifier by identifier from the left, numeric identifiers
\* as integers, a numeric one less than a non-numeric one, non-numeric ones
\* as text, a strict prefix less than the longer sequence; hence the chain
\* 1.0.0-alpha < ... < 1.0.0.
C19_PrereleasePrecedence ==
    /\ Chain
    /\ (/\ compared.op = "compare"
        /\ SameNumbers(va, vb)
        /\ va.prerelease # vb.prerelease) => FollowsPrecedence

\* The same for the prereleases without the identifier "-1".
C19_WithoutMinusOne ==
    /\ Chain
    /\ (/\ compared.op = "compare"
        /\ SameNumbers(va, vb)
        /\ va.prerelease # vb.prerelease
        /\ <<MinusOne>> \notin {va.prerelease, vb.prerelease}) => FollowsPrecedence

\* major.minor.patch of a version
Numbers(v) == <<v.major, v.minor, v.patch>>

\* C20: bump operations. For every non-partial version v the three bumps
\* return a version with empty prerelease and empty build. next_major keeps
\* major.minor.patch exactly when v has a prerelease and minor = 0 and
\* patch = 0, otherwise gives (major+1).0.0; next_minor keeps them exactly
\* when v has a prerelease and patch = 0, otherwise gives major.(minor+1).0;
\* next_patch keeps them exactly when v has a prerelease, otherwise gives
\* major.minor.(patch+1).
C20_Bumps ==
    bumped.op # "none" =>
        LET r == bumped.result
            kept == Numbers(r) = Numbers(va)
            pre == va.prerelease # <<>>
        IN  /\ r.prerelease = <<>>
            /\ r.build = <<>>
            /\ ~r.partial
            /\ bumped.op = "next_major" =>
                /\ kept <=> (pre /\ va.minor = 0 /\ va.patch = 0)
                /\ ~kept => Numbers(r) = <<va.major + 1, 0, 0>>
            /\ bumped.op = "next_minor" =>
                /\ kept <=> (pre /\ va.patch = 0)
                /\ ~kept => Numbers(r) = <<va.major, va.minor + 1, 0>>
            /\ bumped.op = "next_patch" =>
                /\ kept <=> pre
                /\ ~kept => Numbers(r) = <<va.major, va.minor, va.patch + 1>>

\* A prerelease version with build metadata and patch = 0 but minor # 0 has
\* been bumped by next_minor: the numbers are kept.
C20_Witness ==
    /\ bumped.op = "next_minor"
    /\ va.prerelease # <<>>
    /\ va.build # <<>>
    /\ va.minor # 0
    /\ va.patch = 0
    /\ Numbers(bumped.result) = Numbers(va)

-----------------------------------------------------------------------------
(* base.py: VersionReq.match and the Spec operations. *)

\* The requirement versions: as VersionReq.parse gives them by default
\* (partial=True: 1.2.3, 1.2, 1 and 1.2.3-alpha, the fields left out None),
\* and non-partial ones.
RangeVersions ==
    {PartialV(major, minor, patch) :
        major \in 0..MaxNum, minor \in 0..MaxNum, patch \in 0..MaxNum}
    \cup {PartialV(major, minor, NoneInt) : major \in 0..MaxNum, minor \in 0..MaxNum}
    \cup {PartialV(major, NoneInt, NoneInt) : major \in 0..MaxNum}
    \cup {Version(major, minor, patch, <<Alpha>>, NoneSeq, TRUE) :
            major \in 0..MaxNum, minor \in 0..MaxNum, patch \in 0..MaxNum}
    \cup ReqVersions

\* The kinds VersionReq.parse gives: '=' is an alias of '=='.
ParsedKinds == VersionKinds \ {KIND_SHORTEQ}

RangeReqs ==
    {VersionReq(kind, version) : kind \in ParsedKinds, version \in RangeVersions}
    \cup {VersionReq(KIND_ANY, NoVersion)}

\* The non-partial versions matched: numbers one beyond those of the
\* requirements, with and without prerelease and build metadata.
MatchedVersions ==
    {Version(major, minor, patch, prerelease, build, FALSE) :
        major \in 0..(MaxNum + 1), minor \in 0..(MaxNum + 1), patch \in 0..(MaxNum + 1),
        prerelease \in {<<>>, <<Alpha>>}, build \in {<<>>, <<Num(1)>>}}

\* Spec.from_str of ">=0.1.0,<1.1.0", of the same requirements in the other
\* order, of a requirement given twice and given once, and of
\* ">=0.1.0,!=0.1.0,<1.1.0".
FromStr ==
    LET gte == VersionReq(KIND_GTE, PartialV(0, 1, 0))
        lt == VersionReq(KIND_LT, PartialV(1, 1, 0))
        neq == VersionReq(KIND_NEQ, PartialV(0, 1, 0))
    IN  {<<gte, lt>>, <<lt, gte>>, <<gte, gte>>, <<gte>>, <<gte, neq, lt>>}

\* The versions of the lists handed to filter and select.
ListedVersions ==
    {V(0, 0, 1), V(0, 1, 0), V(1, 0, 0), V(1, 1, 0),
     Version(1, 0, 0, <<Alpha>>, <<>>, FALSE),
     Version(0, 1, 0, <<>>, <<Num(1)>>, FALSE)}

\* length of the lists handed to filter and select
MaxListed == 2

Lists == UNION {[1..n -> ListedVersions] : n \in 0..MaxListed}

InitRanges ==
    /\ rangeSet \in {<<req>> : req \in RangeReqs} \cup FromStr
    /\ otherSet = <<>>
    /\ given = <<>>
    /\ answer = NoResult
    /\ SolverIdle
    /\ EdgesIdle
    /\ IngestIdle
    /\ DiscoveryIdle
    /\ VersionsIdle
    /\ TextIdle

\* req.match(version) for the one requirement of rangeSet
ReqMatch ==
    /\ answer = NoResult
    /\ Len(rangeSet) = 1
    /\ \E version \in MatchedVersions :
        /\ given' = <<version>>
        /\ answer' = [op |-> "VersionReq.match",
                      raised |-> match_raises(rangeSet[1]),
                      value |-> IF match_raises(rangeSet[1]) THEN FALSE
                                ELSE match(rangeSet[1], version)]
    /\ UNCHANGED <<rangeSet, otherSet, solverVars, edgeVars, ingestVars, discoveryVars,
                   versionVars, textVars>>

\* spec.match(version)
SpecMatchCall ==
    /\ answer = NoResult
    /\ rangeSet \in FromStr
    /\ \E version \in ListedVersions :
        /\ given' = <<version>>
        /\ answer' = [op |-> "Spec.match", value |-> SpecMatch(rangeSet, version)]
    /\ UNCHANGED <<rangeSet, otherSet, solverVars, edgeVars, ingestVars, discoveryVars,
                   versionVars, textVars>>

\* tuple(spec.filter(versions))
SpecFilterCall ==
    /\ answer = NoResult
    /\ rangeSet \in FromStr
    /\ \E versions \in Lists :
        /\ given' = versions
        /\ answer' = [op |-> "Spec.filter", value |-> SpecFilter(rangeSet, versions)]
    /\ UNCHANGED <<rangeSet, otherSet, solverVars, edgeVars, ingestVars, discoveryVars,
                   versionVars, textVars>>

\* spec.select(versions)
SpecSelectCall ==
    /\ answer = NoResult
    /\ rangeSet \in FromStr
    /\ \E versions \in Lists :
        /\ given' = versions
        /\ answer' = [op |-> "Spec.select", value |-> SpecSelect(rangeSet, versions)]
    /\ UNCHANGED <<rangeSet, otherSet, solverVars, edgeVars, ingestVars, discoveryVars,
                   versionVars, textVars>>

\* spec == other, hash(spec) and hash(other)
SpecCompare ==
    /\ answer = NoResult
    /\ rangeSet \in FromStr
    /\ \E other \in FromStr :
        /\ otherSet' = other
        /\ answer' = [op |-> "Spec.__eq__",
                      value |-> SpecEq(rangeSet, other),
                      hash |-> SpecHash(rangeSet),
                      otherHash |-> SpecHash(other)]
    /\ UNCHANGED <<rangeSet, given, solverVars, edgeVars, ingestVars, discoveryVars,
                   versionVars, textVars>>

NextRanges == ReqMatch \/ SpecMatchCall \/ SpecFilterCall \/ SpecSelectCall \/ SpecCompare

SpecRanges == InitRanges /\ [][NextRanges]_vars

\* The kinds that match a range
RangeKinds == {KIND_CARET, KIND_TILDE, KIND_COMPATIBLE}

\* The upper end of the range of a requirement version, kind by kind.
RangeUpper(kind, version) ==
    CASE kind = KIND_CARET ->
            IF version.major # 0 THEN next_major(version)
            ELSE IF version.minor # 0 THEN next_minor(version)
            ELSE next_patch(version)
      [] kind = KIND_TILDE -> next_minor(version)
      [] kind = KIND_COMPATIBLE ->
            IF version.patch # NoneInt THEN next_minor(version)
            ELSE next_major(version)

\* V <= v < upper
InRange(req, v) ==
    VersionLe(req.version, v) /\ VersionLt(v, RangeUpper(req.kind, req.version))

\* ^1.2.3 matches [1.2.3, 2.0.0), ^0.1.2 matches [0.1.2, 0.2.0) and ^0.0.2
\* matches [0.0.2, 0.0.3).
CaretExamples ==
    LET caret(major, minor, patch) == VersionReq(KIND_CARET, PartialV(major, minor, patch))
    IN  /\ match(caret(1, 2, 3), V(1, 2, 3))
        /\ match(caret(1, 2, 3), V(1, 9, 9))
        /\ ~match(caret(1, 2, 3), V(2, 0, 0))
        /\ ~match(caret(1, 2, 3), V(1, 2, 2))
        /\ match(caret(0, 1, 2), V(0, 1, 2))
        /\ match(caret(0, 1, 2), V(0, 1, 9))
        /\ ~match(caret(0, 1, 2), V(0, 2, 0))
        /\ ~match(caret(0, 1, 2), V(0, 1, 1))
        /\ match(caret(0, 0, 2), V(0, 0, 2))
        /\ ~match(caret(0, 0, 2), V(0, 0, 3))
        /\ ~match(caret(0, 0, 2), V(0, 0, 1))

\* C21: range kinds match a half-open interval. For every requirement
\* version V and every version v a caret, tilde or compatible-release
\* requirement matches v exactly when V <= v < upper, upper being the bump of
\* V the kind names.
C21_HalfOpenRange ==
    /\ CaretExamples
    /\ (answer.op = "VersionReq.match" /\ rangeSet[1].kind \in RangeKinds) =>
        /\ ~answer.raised
        /\ answer.value = InRange(rangeSet[1], given[1])

\* The same for the calls that return, and what the others have in common:
\* a requirement version whose minor or patch is unknown.
C21_WhenMatchReturns ==
    /\ CaretExamples
    /\ (answer.op = "VersionReq.match" /\ rangeSet[1].kind \in RangeKinds) =>
        IF answer.raised
        THEN rangeSet[1].version.minor = NoneInt \/ rangeSet[1].version.patch = NoneInt
        ELSE answer.value = InRange(rangeSet[1], given[1])

\* every requirement of rangeSet matches the version
AllMatch(version) == \A i \in 1..Len(rangeSet) : match(rangeSet[i], version)

\* the places of given whose version every requirement matches
MatchingPlaces == {i \in 1..Len(given) : AllMatch(given[i])}

\* kept is given restricted to the matching places, the order unchanged
KeepsMatchingInOrder(kept) ==
    /\ Len(kept) = Cardinality(MatchingPlaces)
    /\ \E place \in [1..Len(kept) -> 1..Len(given)] :
        /\ \A k \in 1..Len(kept) : place[k] \in MatchingPlaces /\ kept[k] = given[place[k]]
        /\ \A k, l \in 1..Len(kept) : k < l => place[k] < place[l]

\* ">=0.1.1,!=0.1.4,<0.2.0" selects 0.1.5 from 0.1.0, 0.1.1, 0.1.5,
\* 0.1.4-alpha, 0.1.2, 0.2.0-rc1, 3.14.15.
SelectExample ==
    LET spec == <<VersionReq(KIND_GTE, PartialV(0, 1, 1)),
                  VersionReq(KIND_NEQ, PartialV(0, 1, 4)),
                  VersionReq(KIND_LT, PartialV(0, 2, 0))>>
        rc1 == Identifier(FALSE, 3)
        versions == <<V(0, 1, 0), V(0, 1, 1), V(0, 1, 5),
                      Version(0, 1, 4, <<Alpha>>, <<>>, FALSE), V(0, 1, 2),
                      Version(0, 2, 0, <<rc1>>, <<>>, FALSE), V(3, 14, 15)>>
    IN  /\ SpecSelect(spec, versions) = V(0, 1, 5)
        /\ SpecFilter(spec, versions) = <<V(0, 1, 1), V(0, 1, 5), V(0, 1, 2)>>

\* C22: a Range Set is a conjunction and select takes the maximum.
\* Spec.match(v) is true exactly when every requirement matches v; filter
\* keeps exactly the matching versions in their input order; select returns
\* the greatest matching version of those given, or nothing when none
\* matches.
C22_ConjunctionAndMaximum ==
    /\ SelectExample
    /\ answer.op = "Spec.match" => answer.value = AllMatch(given[1])
    /\ answer.op = "Spec.filter" => KeepsMatchingInOrder(answer.value)
    /\ answer.op = "Spec.select" =>
        IF MatchingPlaces = {} THEN answer.value = None
        ELSE /\ \E i \in MatchingPlaces : answer.value = given[i]
             /\ \A i \in MatchingPlaces : ~VersionGt(given[i], answer.value)

\* select has been given two matching versions, the greater one last, and a
\* set of three requirements.
C22_Witness ==
    /\ answer.op = "Spec.select"
    /\ Len(rangeSet) = 3
    /\ MatchingPlaces = {1, 2}
    /\ VersionLt(given[1], given[2])
    /\ answer.value = given[2]

\* C30: hash agrees with equality for Range Sets. Two Range Sets that compare
\* equal, two sets with the same requirements in a different order included,
\* have the same hash.
C30_HashAgreesWithEq ==
    (answer.op = "Spec.__eq__" /\ answer.value) => answer.hash = answer.otherHash

\* The same for two Range Sets whose tuples of requirements are the same.
C30_SameTuple ==
    (answer.op = "Spec.__eq__" /\ rangeSet = otherSet) =>
        answer.value /\ answer.hash = answer.otherHash

\* The kinds C28 names: all but !=.
OverApproximated == (ParsedKinds \ {KIND_NEQ}) \cup {KIND_ANY}

\* v satisfies every edge of an accumulator
SatisfiesEdges(v, edges) ==
    /\ \A e \in edges.reqs_gte : VersionGe(v, e.version)
    /\ \A e \in edges.reqs_lt : VersionLt(v, e.version)

\* The requirement matched is of one of the kinds wanted, it matches the
\* version, and Edges.append normalizes it without error.
MatchedAndNormalized(kinds) ==
    /\ answer.op = "VersionReq.match"
    /\ rangeSet[1].kind \in kinds
    /\ ~answer.raised
    /\ answer.value
    /\ append(NewEdges, rangeSet[1]).error = "none"

\* C28: edges over-approximate the requirement. For every requirement r of
\* kind <, <=, >, >=, ==, caret, tilde, compatible-release or wildcard and
\* every non-partial version v, if r.match(v) then v satisfies every edge
\* that normalizing r produces.
C28_EdgesOverApproximate ==
    MatchedAndNormalized(OverApproximated) =>
        SatisfiesEdges(given[1], append(NewEdges, rangeSet[1]))

\* The same for the requirements with a non-partial version, the kinds > and
\* wildcard left out.
C28_NonPartialRequirements ==
    (/\ MatchedAndNormalized(OverApproximated \ {KIND_ANY, KIND_GT})
     /\ ~rangeSet[1].version.partial) =>
        SatisfiesEdges(given[1], append(NewEdges, rangeSet[1]))

\* C29: bumps never go down. For every non-partial version v,
\* v < next_patch(v) <= next_minor(v) <= next_major(v) in the version
\* ordering.
C29_BumpsNeverGoDown ==
    /\ bumped.op = "next_patch" => VersionLt(va, bumped.result)
    /\ bumped.op = "next_minor" => VersionLe(next_patch(va), bumped.result)
    /\ bumped.op = "next_major" => VersionLe(next_minor(va), bumped.result)

\* A prerelease of x.0.0 has been bumped by next_major: the three bumps are
\* the same version, which is greater than the prerelease.
C29_Witness ==
    /\ bumped.op = "next_major"
    /\ va.prerelease # <<>>
    /\ va.minor = 0
    /\ va.patch = 0
    /\ bumped.result = next_patch(va)
    /\ VersionLt(va, bumped.result)

-----------------------------------------------------------------------------
(* base.py: Version.parse and Version.__str__ on strings. A string is the   *)
(* sequence of its characters.                                              *)

DigitChars == <<"0", "1", "2", "3", "4", "5", "6", "7", "8", "9">>

Digits == {DigitChars[i] : i \in 1..10}

\* [0-9a-zA-Z.-], with one letter
ClassChars == Digits \cup {"a", ".", "-"}

\* str.isdigit
isdigit(value) == value # <<>> /\ \A i \in 1..Len(value) : value[i] \in Digits

\* int(value) of a string of digits
RECURSIVE int_from(_, _, _)
int_from(value, i, acc) ==
    IF i > Len(value) THEN acc
    ELSE int_from(value, i + 1,
                  10 * acc + (CHOOSE d \in 0..9 : DigitChars[d + 1] = value[i]))

int(value) == int_from(value, 1, 0)

\* '%d' % n
RECURSIVE format_d(_)
format_d(n) ==
    IF n < 10 THEN <<DigitChars[n + 1]>>
    ELSE format_d(n \div 10) \o <<DigitChars[(n % 10) + 1]>>

\* place of the first c in value, 0 when there is none
RECURSIVE find_from(_, _, _)
find_from(value, c, i) ==
    IF i > Len(value) THEN 0
    ELSE IF value[i] = c THEN i
    ELSE find_from(value, c, i + 1)

find(value, c) == find_from(value, c, 1)

\* value.split(c)
RECURSIVE split(_, _)
split(value, c) ==
    LET at == find(value, c)
    IN  IF at = 0 THEN <<value>>
        ELSE <<SubSeq(value, 1, at - 1)>> \o split(SubSeq(value, at + 1, Len(value)), c)

\* c.join(items)
RECURSIVE join(_, _)
join(items, c) ==
    IF items = <<>> THEN <<>>
    ELSE IF Len(items) = 1 THEN items[1]
    ELSE items[1] \o <<c>> \o join(Tail(items), c)

\* _has_leading_zero
has_leading_zero(value) ==
    value # <<>> /\ value[1] = "0" /\ isdigit(value) /\ value # <<"0">>

\* A group of a regular expression match, or a field of a Version that is a
\* tuple of identifiers: None, or the text (the identifiers).
NoGroup == [none |-> TRUE, of |-> <<>>]

Group(of) == [none |-> FALSE, of |-> of]

\* version_re.match / partial_version_re.match and match.groups(): the
\* build is what follows the first '+', the prerelease what follows the
\* first '-' before it, the numbers what is left, split at the dots.
groups(version_string, partial) ==
    LET plus == find(version_string, "+")
        head == IF plus = 0 THEN version_string ELSE SubSeq(version_string, 1, plus - 1)
        build == IF plus = 0 THEN NoGroup
                 ELSE Group(SubSeq(version_string, plus + 1, Len(version_string)))
        dash == find(head, "-")
        core == IF dash = 0 THEN head ELSE SubSeq(head, 1, dash - 1)
        prerelease == IF dash = 0 THEN NoGroup
                      ELSE Group(SubSeq(head, dash + 1, Len(head)))
        numbers == split(core, ".")
        inClass(group) ==
            /\ \A i \in 1..Len(group.of) : group.of[i] \in ClassChars
            /\ group.none \/ partial \/ group.of # <<>>
    IN  [matched |-> /\ \A i \in 1..Len(numbers) : isdigit(numbers[i])
                     /\ IF partial THEN Len(numbers) \in 1..3 ELSE Len(numbers) = 3
                     /\ inClass(prerelease)
                     /\ inClass(build),
         numbers |-> numbers,
         prerelease |-> prerelease,
         build |-> build]

\* _validate_identifiers raises
invalid_identifiers(identifiers, allow_leading_zeroes) ==
    \E i \in 1..Len(identifiers) :
        \/ identifiers[i] = <<>>
        \/ /\ identifiers[i][1] = "0"
           /\ isdigit(identifiers[i])
           /\ identifiers[i] # <<"0">>
           /\ ~allow_leading_zeroes

\* A Version whose prerelease and build are tuples of strings or None.
TextVersion(major, minor, patch, prerelease, build, partial) ==
    [major |-> major, minor |-> minor, patch |-> patch,
     prerelease |-> prerelease, build |-> build, partial |-> partial]

ValueError == [error |-> "ValueError", version |-> <<>>]

Parsed(version) == [error |-> "none", version |-> version]

\* Version.parse(version_string, partial)
parse(version_string, partial) ==
    LET g == groups(version_string, partial)
        number(i) == IF i <= Len(g.numbers) THEN int(g.numbers[i]) ELSE NoneInt
        prerelease == IF g.prerelease.none \/ g.prerelease.of = <<>> THEN Group(<<>>)
                      ELSE Group(split(g.prerelease.of, "."))
        build == IF g.build.none THEN (IF partial THEN NoGroup ELSE Group(<<>>))
                 ELSE IF g.build.of = <<>> THEN Group(<<>>)
                 ELSE Group(split(g.build.of, "."))
    IN  IF version_string = <<>> THEN ValueError
        ELSE IF ~g.matched THEN ValueError
        ELSE IF \E i \in 1..Len(g.numbers) : has_leading_zero(g.numbers[i]) THEN ValueError
        ELSE IF g.prerelease.none /\ partial /\ g.build.none
        THEN Parsed(TextVersion(number(1), number(2), number(3), NoGroup, NoGroup, partial))
        ELSE IF invalid_identifiers(prerelease.of, FALSE) THEN ValueError
        ELSE IF invalid_identifiers(build.of, TRUE) THEN ValueError
        ELSE Parsed(TextVersion(number(1), number(2), number(3), prerelease, build,
                                partial))

\* A Version.__str__ that prints no empty prerelease or build.
str_of_non_empty(self) ==
    LET major == format_d(self.major)
        minor == IF self.minor # NoneInt THEN <<".">> \o format_d(self.minor) ELSE <<>>
        patch == IF self.patch # NoneInt THEN <<".">> \o format_d(self.patch) ELSE <<>>
        prerelease == IF self.prerelease.of # <<>>
                      THEN <<"-">> \o join(self.prerelease.of, ".") ELSE <<>>
        build == IF self.build.of # <<>>
                 THEN <<"+">> \o join(self.build.of, ".") ELSE <<>>
    IN  major \o minor \o patch \o prerelease \o build

\* Version.__str__
str(self) ==
    LET major == format_d(self.major)
        minor == IF self.minor # NoneInt THEN <<".">> \o format_d(self.minor) ELSE <<>>
        patch == IF self.patch # NoneInt THEN <<".">> \o format_d(self.patch) ELSE <<>>
        prerelease ==
            IF \/ self.prerelease.of # <<>>
               \/ self.partial /\ self.prerelease = Group(<<>>) /\ self.build.none
            THEN <<"-">> \o join(self.prerelease.of, ".") ELSE <<>>
        build ==
            IF self.build.of # <<>> \/ (self.partial /\ self.build = Group(<<>>))
            THEN <<"+">> \o join(self.build.of, ".") ELSE <<>>
    IN  major \o minor \o patch \o prerelease \o build

\* The strings parsed: one to three numbers joined by dots, followed by any
\* string of at most MaxSuffix characters; and the empty string.
NumberTexts == {<<"0">>, <<"1">>, <<"0", "1">>}

SuffixChars == {"0", "a", ".", "-", "+"}

\* length of what follows the numbers
MaxSuffix == 4

Texts ==
    {join(numbers, ".") \o suffix :
        numbers \in UNION {[1..n -> NumberTexts] : n \in 1..3},
        suffix \in UNION {[1..n -> SuffixChars] : n \in 0..MaxSuffix}}
    \cup {<<>>}

InitText ==
    /\ text \in Texts
    /\ partialMode \in BOOLEAN
    /\ trip = NoResult
    /\ SolverIdle
    /\ EdgesIdle
    /\ IngestIdle
    /\ DiscoveryIdle
    /\ VersionsIdle
    /\ RangesIdle

\* v = Version.parse(text, partial=partialMode)
Parse ==
    /\ trip = NoResult
    /\ trip' = [op |-> "parse", first |-> parse(text, partialMode)]
    /\ UNCHANGED <<text, partialMode, solverVars, edgeVars, ingestVars, discoveryVars,
                   versionVars, rangeVars>>

\* s = str(v)
Str ==
    /\ trip.op = "parse"
    /\ trip.first.error = "none"
    /\ trip' = [op |-> "str", first |-> trip.first, printed |-> str(trip.first.version)]
    /\ UNCHANGED <<text, partialMode, solverVars, edgeVars, ingestVars, discoveryVars,
                   versionVars, rangeVars>>

\* Version.parse(s, partial=partialMode)
Reparse ==
    /\ trip.op = "str"
    /\ trip' = [op |-> "reparse", first |-> trip.first, printed |-> trip.printed,
                second |-> parse(trip.printed, partialMode)]
    /\ UNCHANGED <<text, partialMode, solverVars, edgeVars, ingestVars, discoveryVars,
                   versionVars, rangeVars>>

NextText == Parse \/ Str \/ Reparse

SpecText == InitText /\ [][NextText]_vars

\* A string is canonical when strict parsing accepts it.
Canonical(version_string) == parse(version_string, FALSE).error = "none"

\* C23: Round trip of the version format. Whenever a string was parsed, in
\* strict or in partial mode, and the version printed, parsing what was
\* printed in the same mode gives a version with the same major, minor,
\* patch, prerelease and build; and what was printed of a canonical string
\* is that string.
C23_RoundTrip ==
    /\ trip.op = "reparse" =>
        /\ trip.second.error = "none"
        /\ trip.second.version = trip.first.version
    /\ trip.op \in {"str", "reparse"} /\ Canonical(text) => trip.printed = text

\* A partial version with an empty prerelease and no build, and a version
\* with both a prerelease and a build, have made the round trip.
C23_Witness ==
    /\ trip.op = "reparse"
    /\ \/ /\ partialMode
          /\ trip.first.version.prerelease = Group(<<>>)
          /\ trip.first.version.build.none
       \/ /\ ~partialMode
          /\ trip.first.version.prerelease.of # <<>>
          /\ trip.first.version.build.of # <<>>

\* What is printed of any string that parses is that string.
C23_EveryString ==
    trip.op \in {"str", "reparse"} => trip.printed = text

-----------------------------------------------------------------------------
(* The resolver again: the loop over the candidates of a dependency. *)

\* The frames of attempt_pkgVersion_traversal that are inside the call
\* attempt_pkg_traversal(dep) of their loop, or have just got its result.
Calling == {k \in 1..Len(stack) :
               stack[k].fn = "attempt_pkgVersion_traversal" /\ stack[k].pc = "call"}

\* The item (dep, depVersions) the loop of a frame is at.
ItemOf(frame) == pkgsVersionsDeps[frame.pkg].deps[frame.pkgVersion][frame.i]

\* C24: Newest first for dependencies. Whenever attempt_pkgVersion_traversal
\* has locked an unlocked dependency to a candidate and called its traversal,
\* the candidate is one of the Candidate Set that is not in the failure
\* cache, every greater candidate is in the failure cache (it was skipped,
\* or tried before and failed), and the dependency stays locked to the
\* candidate, so that when the traversal succeeds the dependency is locked
\* to the greatest candidate not in the failure cache.
C24_NewestFirstForDependencies ==
    \A k \in Calling :
        LET dep == ItemOf(stack[k]).dep
            depVersions == ItemOf(stack[k]).versions
            depVersion == stack[k].depVersion
        IN  /\ depVersion \in depVersions
            /\ depVersion \notin failedVersions[dep]
            /\ \A u \in depVersions :
                   VersionGt(u, depVersion) => u \in failedVersions[dep]
            /\ pkgsLocked[dep] = depVersion

\* The traversal of a candidate has succeeded after a greater candidate of
\* the same loop had failed.
C24_Witness ==
    /\ ret = "ok"
    /\ Len(stack) \in Calling
    /\ \E u \in ItemOf(Top).versions : VersionGt(u, Top.depVersion)

\* attempt_pkgVersion_traversal is at the head of its loop with a dependency
\* that is locked.
ExaminesLocked ==
    /\ InPkgVersion /\ Top.pc = "start" /\ ret = "none"
    /\ Top.i <= Len(DepsVersions)
    /\ pkgsLocked[Dep] # None

\* The dependencies a frame of attempt_pkgVersion_traversal found locked and
\* accepted: those its loop is past and it did not lock itself.
AcceptedBy(frame) ==
    {j \in 1..(frame.i - 1) :
        pkgsVersionsDeps[frame.pkg].deps[frame.pkgVersion][j].dep
            \notin Range(frame.lockedHere)}

\* C25: Already-locked dependencies are not searched. When
\* attempt_pkgVersion_traversal examines a dependency that is locked, it goes
\* on to the next dependency if the locked version is in the Candidate Set
\* and raises NotSolved at once if it is not; in both cases the step leaves
\* the lock of the dependency and its failure cache as they were, and calls
\* nothing.
C25_LockedNotSearched ==
    [][ExaminesLocked =>
          /\ pkgsLocked'[Dep] = pkgsLocked[Dep]
          /\ failedVersions'[Dep] = failedVersions[Dep]
          /\ IF pkgsLocked[Dep] \in DepVersions
             THEN /\ Len(stack') = Len(stack)
                  /\ stack'[Len(stack)].i = Top.i + 1
                  /\ stack'[Len(stack)].pc = "start"
                  /\ ret' = "none"
             ELSE /\ stack' = Pop
                  /\ ret' = "NotSolved"]_vars

\* A call has raised NotSolved on a dependency locked outside its Candidate
\* Set; the dependency is still locked and has no failed version.
C25_Witness ==
    /\ ret = "NotSolved"
    /\ lastRaise.raised
    /\ LET deps == pkgsVersionsDeps[lastRaise.pkg].deps[lastRaise.pkgVersion]
       IN  \E j \in 1..Len(deps) :
               /\ pkgsLocked[deps[j].dep] # None
               /\ pkgsLocked[deps[j].dep] \notin deps[j].versions
               /\ failedVersions[deps[j].dep] = {}

\* The dependencies a call found locked and accepted stay locked to a
\* version of their Candidate Set while the call lasts.
C25_AcceptedStaysLocked ==
    \A k \in 1..Len(stack) :
        stack[k].fn = "attempt_pkgVersion_traversal" =>
            \A j \in AcceptedBy(stack[k]) :
                LET item == pkgsVersionsDeps[stack[k].pkg].deps[stack[k].pkgVersion][j]
                IN  pkgsLocked[item.dep] \in item.versions

\* An assignment of one version to every package that locks pkg to version
\* and satisfies the Candidate Sets of every dependency.
Solves(asg, pkg, version) ==
    /\ asg[pkg] = version
    /\ \A other \in DOMAIN asg : asg[other] # None
    /\ Satisfied(asg)

\* C26: The failure cache only holds proven failures. At every point of a
\* resolution run, for every version in the failure cache of a package there
\* is no assignment of one version per package that contains the package at
\* that version and the root and satisfies the Candidate Sets of all
\* dependencies of every chosen (package, version).
C26_OnlyProvenFailures ==
    \A pkg \in DOMAIN failedVersions : \A version \in failedVersions[pkg] :
        ~\E asg \in Assignments : Solves(asg, pkg, version)

\* No package is locked to a version of its failure cache.
Disjoint ==
    \A pkg \in DOMAIN pkgsLocked :
        pkgsLocked[pkg] # None => pkgsLocked[pkg] \notin failedVersions[pkg]

\* C27: Lock and failure cache are disjoint. In every state of a resolution
\* run no package is locked to a version that is in its failure cache; the
\* step that records a failure of a package leaves the package unlocked, and
\* no step takes a version out of a failure cache.
C27_LockAndFailureCacheDisjoint ==
    /\ []Disjoint
    /\ [][\A pkg \in DOMAIN failedVersions :
              /\ failedVersions[pkg] \subseteq failedVersions'[pkg]
              /\ failedVersions'[pkg] # failedVersions[pkg] =>
                     pkgsLocked'[pkg] = None]_vars

\* A package with a failed version is locked again, to another version.
C27_Witness ==
    \E pkg \in DOMAIN pkgsLocked :
        /\ failedVersions[pkg] # {}
        /\ pkgsLocked[pkg] # None

=============================================================================
